---- MODULE Spec2Model ----
(***************************************************************************)
(* A model of the chess engine of ce-games (src/chess/engine/src): the    *)
(* 0x88 board with its piece lists and incremental hashes, the move       *)
(* generator, the engine facade and the iterative-deepening search.       *)
(*                                                                         *)
(* 32-bit words (Zobrist hashes, PRNG states) are sets of bit positions:  *)
(* bit i of the word is set iff i is in the set. 8- and 16-bit values     *)
(* that only see arithmetic are naturals, reduced modulo their width.     *)
(***************************************************************************)
EXTENDS Integers, Sequences, FiniteSets, TLC

\* ------------------------------------------------------------------------
\* Words as bit sets
\* ------------------------------------------------------------------------

\* an explicit set, so that long chains of XORs stay flat
Xor(a, b) == {i \in 0..31 : (i \in a) # (i \in b)}

Shl(a, k) == {i + k : i \in {j \in a : j + k < 32}}

Shr(a, k) == {i - k : i \in {j \in a : j >= k}}

\* the low n bits of a word (a conversion to an n-bit unsigned type)
Low(a, n) == {i \in a : i < n}

\* the bits of a natural below 2^31
ToBits(n) == {i \in 0..30 : (n \div (2 ^ i)) % 2 = 1}

RECURSIVE ToNat(_)
ToNat(a) == IF a = {} THEN 0
            ELSE LET i == CHOOSE j \in a : TRUE IN (2 ^ i) + ToNat(a \ {i})

\* bit test on a byte: (v & bit) != 0 for a single-bit mask
HasFlag(v, bit) == (v \div bit) % 2 = 1

\* v & ~bit for a single-bit mask
ClearFlag(v, bit) == IF HasFlag(v, bit) THEN v - bit ELSE v

\* ------------------------------------------------------------------------
\* types.h
\* ------------------------------------------------------------------------

PIECE_NONE == 0
OFFBOARD == 255
PIECE_PAWN == 1
PIECE_KNIGHT == 2
PIECE_BISHOP == 3
PIECE_ROOK == 4
PIECE_QUEEN == 5
PIECE_KING == 6
COLOR_WHITE == 0
COLOR_BLACK == 128
WHITE == 0
BLACK == 1
SQ_NONE == 255
CASTLE_WK == 1
CASTLE_WQ == 2
CASTLE_BK == 4
CASTLE_BQ == 8
FLAG_CAPTURE == 1
FLAG_CASTLE == 2
FLAG_EN_PASSANT == 4
FLAG_PROMOTION == 8
FLAG_PROMO_R == 16
FLAG_PROMO_B == 32
FLAG_PROMO_N == 48
FLAG_DOUBLE_PUSH == 64
PLIST_INVALID == 255

MAKE_PIECE(color, type) == color + type
PIECE_TYPE(p) == p % 8
IS_BLACK(p) == p >= 128
IS_WHITE(p) == p < 128
RC_TO_SQ(r, c) == r * 16 + c
SQ_TO_ROW(sq) == sq \div 16
SQ_TO_COL(sq) == sq % 8
\* !(sq & 0x88) on a byte
SQ_VALID(sq) == sq < 128 /\ sq % 16 < 8
SQ_TO_SQ64(sq) == ((sq \div 16) % 8) * 8 + (sq % 8)
EVAL_INDEX(type) == type - 1
\* sq64 ^ 56: the rank bits are inverted, the file bits kept
PST_FLIP(sq64) == (7 - (sq64 \div 8)) * 8 + (sq64 % 8)

MOVE_NONE == [from |-> SQ_NONE, to |-> SQ_NONE, flags |-> 0]

\* a byte: the value of a uint8_t expression
U8(x) == x % 256

\* the value of an int8_t expression: out-of-range values wrap modulo 256
I8(x) == ((x + 128) % 256) - 128

\* the value of an int16_t expression
I16(x) == ((x + 32768) % 65536) - 32768

\* ------------------------------------------------------------------------
\* zobrist.c
\* ------------------------------------------------------------------------

prng_next(x) ==
    LET a == Xor(x, Shl(x, 13))
        b == Xor(a, Shr(a, 17))
    IN Xor(b, Shl(b, 5))

\* the n successive outputs of the generator from state x: the first half of
\* them, then the rest from the state the first half ends in
RECURSIVE PrngRun(_, _)
PrngThen(first, n) == first \o PrngRun(first[Len(first)], n - Len(first))

PrngRun(x, n) ==
    IF n = 0 THEN << >>
    ELSE IF n = 1 THEN <<prng_next(x)>>
    ELSE PrngThen(PrngRun(x, n \div 2), n)

\* zobrist_init(0): the 1586 successive outputs of the generator seeded with
\* 0x12345678, in the order the tables are filled
zobrist_init == PrngRun(ToBits(305419896), 1586)

zobrist_piece_index(piece) == (IF IS_BLACK(piece) THEN 6 ELSE 0) + PIECE_TYPE(piece) - 1

zobrist_piece(pidx, sq64) == zobrist_init[pidx * 64 + sq64 + 1]
zobrist_castle(c) == zobrist_init[768 + c + 1]
zobrist_ep_file(f) == zobrist_init[784 + f + 1]
zobrist_side == zobrist_init[793]
lock_piece(pidx, sq64) == Shr(zobrist_init[793 + pidx * 64 + sq64 + 1], 16)
lock_castle(c) == Shr(zobrist_init[793 + 768 + c + 1], 16)
lock_ep_file(f) == Shr(zobrist_init[793 + 784 + f + 1], 16)
lock_side == Shr(zobrist_init[1586], 16)

\* ------------------------------------------------------------------------
\* eval.c: combined material + piece-square tables
\* ------------------------------------------------------------------------

phase_weight == <<0, 1, 1, 2, 4, 0>>

mg_table ==
    << << 77, 77, 77, 77, 77, 77, 77, 77, 168, 202, 133, 165, 140, 194, 108, 66,
          71, 83, 101, 105, 137, 129, 100, 58, 63, 89, 82, 96, 98, 88, 92, 55,
          51, 75, 72, 88, 92, 82, 86, 53, 52, 73, 73, 67, 79, 79, 107, 65,
          44, 76, 58, 55, 63, 99, 112, 56, 77, 77, 77, 77, 77, 77, 77, 77 >>,
       << 153, 223, 273, 259, 359, 216, 290, 207, 238, 267, 368, 336, 324, 359, 310, 288,
          261, 358, 337, 362, 379, 420, 369, 343, 295, 319, 321, 351, 337, 366, 320, 323,
          292, 307, 318, 315, 329, 321, 322, 296, 283, 295, 314, 313, 321, 319, 326, 289,
          277, 256, 293, 301, 303, 320, 291, 286, 209, 285, 251, 274, 288, 278, 286, 283 >>,
       << 300, 330, 253, 293, 304, 289, 332, 319, 303, 340, 310, 315, 353, 379, 342, 284,
          312, 359, 365, 362, 357, 371, 359, 324, 323, 331, 343, 371, 359, 359, 332, 324,
          321, 338, 338, 349, 357, 337, 335, 330, 326, 340, 340, 340, 339, 350, 342, 335,
          330, 340, 340, 326, 332, 345, 356, 327, 297, 324, 314, 307, 315, 315, 291, 307 >>,
       << 445, 453, 445, 461, 472, 425, 444, 454, 440, 445, 467, 471, 487, 475, 439, 455,
          412, 433, 439, 448, 432, 456, 470, 431, 396, 407, 423, 439, 438, 447, 410, 399,
          385, 394, 406, 416, 425, 411, 422, 397, 377, 395, 403, 402, 419, 417, 412, 388,
          378, 403, 399, 409, 416, 426, 411, 355, 400, 405, 418, 432, 431, 423, 384, 394 >>,
       << 970, 997, 1026, 1009, 1055, 1040, 1039, 1041, 974, 960, 993, 998, 982, 1053, 1025, 1050,
          985, 981, 1004, 1005, 1026, 1052, 1043, 1053, 971, 971, 982, 982, 996, 1014, 996, 998,
          989, 972, 989, 988, 996, 994, 1000, 995, 984, 999, 987, 996, 993, 999, 1011, 1002,
          963, 990, 1008, 999, 1005, 1012, 995, 998, 996, 980, 989, 1007, 983, 973, 967, 949 >>,
       << -65, 23, 16, -15, -56, -34, 2, 13, 29, -1, -20, -7, -8, -4, -38, -29,
          -9, 24, 2, -16, -20, 6, 22, -22, -17, -20, -12, -27, -30, -25, -23, -36,
          -49, -1, -27, -39, -46, -44, -33, -51, -14, -14, -22, -46, -44, -30, -15, -27,
          1, 7, -8, -64, -43, -16, 9, 8, -15, 36, 12, -54, 8, -28, 24, 14 >> >>

eg_table ==
    << << 105, 105, 105, 105, 105, 105, 105, 105, 303, 297, 280, 254, 268, 251, 288, 313,
          209, 216, 199, 179, 167, 164, 196, 198, 140, 131, 119, 110, 102, 109, 123, 123,
          119, 115, 101, 97, 97, 96, 108, 103, 109, 112, 98, 106, 105, 99, 103, 96,
          119, 113, 113, 93, 119, 105, 107, 97, 105, 105, 105, 105, 105, 105, 105, 105 >>,
       << 241, 262, 289, 273, 270, 274, 235, 196, 276, 295, 276, 301, 293, 276, 277, 247,
          277, 282, 314, 313, 302, 293, 283, 259, 285, 306, 327, 327, 327, 315, 312, 284,
          284, 297, 320, 330, 320, 322, 307, 284, 278, 300, 302, 319, 314, 300, 282, 279,
          258, 282, 292, 298, 301, 282, 278, 256, 272, 248, 278, 287, 279, 284, 249, 234 >>,
       << 291, 284, 294, 298, 299, 297, 288, 281, 298, 302, 313, 293, 303, 292, 302, 291,
          308, 298, 306, 305, 304, 312, 306, 310, 303, 315, 318, 315, 320, 316, 309, 308,
          300, 309, 319, 325, 313, 316, 303, 297, 293, 303, 314, 316, 319, 309, 299, 290,
          291, 287, 299, 305, 310, 297, 290, 278, 282, 297, 282, 301, 297, 289, 301, 288 >>,
       << 575, 572, 581, 578, 574, 574, 570, 567, 573, 575, 575, 573, 558, 564, 570, 564,
          569, 569, 569, 567, 566, 558, 556, 558, 566, 564, 575, 562, 563, 562, 560, 563,
          564, 567, 570, 566, 556, 555, 552, 549, 557, 561, 556, 560, 554, 548, 552, 544,
          555, 555, 561, 563, 551, 551, 549, 558, 551, 563, 564, 560, 556, 547, 566, 539 >>,
       << 986, 1019, 1019, 1024, 1024, 1016, 1006, 1017, 978, 1017, 1030, 1039, 1057, 1022, 1028, 996,
          974, 1002, 1005, 1048, 1046, 1033, 1016, 1005, 999, 1019, 1021, 1043, 1056, 1038, 1056, 1034,
          976, 1025, 1016, 1046, 1029, 1032, 1037, 1020, 979, 967, 1012, 1002, 1005, 1014, 1006, 1001,
          972, 971, 964, 979, 979, 971, 957, 962, 961, 966, 972, 950, 990, 962, 974, 952 >>,
       << -76, -36, -18, -18, -11, 15, 4, -17, -12, 17, 14, 17, 17, 39, 24, 11,
          10, 17, 24, 15, 21, 46, 45, 13, -8, 23, 25, 28, 27, 34, 27, 3,
          -18, -4, 22, 25, 28, 24, 9, -11, -20, -3, 11, 22, 24, 16, 7, -9,
          -28, -11, 4, 13, 14, 4, -5, -17, -54, -35, -22, -11, -29, -14, -25, -44 >> >>

\* mg_table[idx][pst_sq] and eg_table[idx][pst_sq] with the C indices
MG(idx, pst_sq) == mg_table[idx + 1][pst_sq + 1]
EG(idx, pst_sq) == eg_table[idx + 1][pst_sq + 1]
PW(idx) == phase_weight[idx + 1]

\* the table index of a piece of `side` standing on 0x88 square sq
PstSq(side, sq) == IF side = WHITE THEN SQ_TO_SQ64(sq) ELSE PST_FLIP(SQ_TO_SQ64(sq))

\* ------------------------------------------------------------------------
\* board.c
\* ------------------------------------------------------------------------

RECURSIVE BitAnd(_, _)
BitAnd(a, b) ==
    IF a = 0 \/ b = 0 THEN 0
    ELSE (a % 2) * (b % 2) + 2 * BitAnd(a \div 2, b \div 2)

castling_mask(sq) ==
    CASE sq = 0   -> 255 - CASTLE_BQ
      [] sq = 4   -> 255 - (CASTLE_BK + CASTLE_BQ)
      [] sq = 7   -> 255 - CASTLE_BK
      [] sq = 112 -> 255 - CASTLE_WQ
      [] sq = 116 -> 255 - (CASTLE_WK + CASTLE_WQ)
      [] sq = 119 -> 255 - CASTLE_WK
      [] OTHER    -> 255

ui_to_engine_piece(ui_piece) ==
    IF ui_piece = 0 THEN PIECE_NONE
    ELSE IF ui_piece > 0 THEN MAKE_PIECE(COLOR_WHITE, ui_piece)
    ELSE MAKE_PIECE(COLOR_BLACK, -ui_piece)

\* the piece type without the colour
engine_to_ui_piece_drops_colour(piece) ==
    IF piece = PIECE_NONE THEN 0 ELSE PIECE_TYPE(piece)

engine_to_ui_piece(piece) ==
    IF piece = PIECE_NONE THEN 0
    ELSE IF IS_BLACK(piece) THEN -PIECE_TYPE(piece) ELSE PIECE_TYPE(piece)

\* board_compute_hash: the three keys of a position computed from squares,
\* castling, ep_square and side. h and ph are of type zhash_t (unsigned int):
\* `w` is the width of that type in the build (24 on the eZ80, 32 on a host).
\* The loop over the squares XORs one key per occupied square: bit i of the
\* result is set iff an odd number of those keys have bit i set.
HashSquares(b) ==
    LET occ == {sq \in 0..127 : SQ_VALID(sq) /\ b.squares[sq] # PIECE_NONE}
        pawns == {sq \in occ : PIECE_TYPE(b.squares[sq]) = PIECE_PAWN}
        Key(sq) == zobrist_piece(zobrist_piece_index(b.squares[sq]), SQ_TO_SQ64(sq))
        Lock(sq) == lock_piece(zobrist_piece_index(b.squares[sq]), SQ_TO_SQ64(sq))
    IN [h  |-> {i \in 0..31 : Cardinality({sq \in occ : i \in Key(sq)}) % 2 = 1},
        ph |-> {i \in 0..31 : Cardinality({sq \in pawns : i \in Key(sq)}) % 2 = 1},
        l  |-> {i \in 0..15 : Cardinality({sq \in occ : i \in Lock(sq)}) % 2 = 1}]

board_compute_hash(b, w) ==
    LET s == HashSquares(b)
        h1 == Xor(s.h, zobrist_castle(b.castling))
        l1 == Xor(s.l, lock_castle(b.castling))
        h2 == IF b.ep_square # SQ_NONE THEN Xor(h1, zobrist_ep_file(SQ_TO_COL(b.ep_square))) ELSE h1
        l2 == IF b.ep_square # SQ_NONE THEN Xor(l1, lock_ep_file(SQ_TO_COL(b.ep_square))) ELSE l1
        h3 == IF b.side = BLACK THEN Xor(h2, zobrist_side) ELSE h2
        l3 == IF b.side = BLACK THEN Xor(l2, lock_side) ELSE l2
    IN [b EXCEPT !.pawn_hash = Low(s.ph, w), !.hash = Low(h3, w), !.lock = l3]

\* board_init: memset(b->squares + 128, OFFBOARD, 128) runs past squares[128]
\* over piece_list and the head of piece_index, so piece_list starts as 0xFF
board_init ==
    [squares      |-> [i \in 0..127 |-> IF i % 16 >= 8 THEN OFFBOARD ELSE PIECE_NONE],
     piece_list   |-> [s \in 0..1 |-> [i \in 0..15 |-> OFFBOARD]],
     piece_index  |-> [i \in 0..127 |-> PLIST_INVALID],
     piece_count  |-> [s \in 0..1 |-> 0],
     bishop_count |-> [s \in 0..1 |-> 0],
     king_sq      |-> [s \in 0..1 |-> SQ_NONE],
     side         |-> 0,
     castling     |-> 0,
     ep_square    |-> SQ_NONE,
     halfmove     |-> 0,
     fullmove     |-> 0,
     pawn_hash    |-> {},
     hash         |-> {},
     lock         |-> {},
     mg           |-> [s \in 0..1 |-> 0],
     eg           |-> [s \in 0..1 |-> 0],
     phase        |-> 0]

board_add_piece(b, sq, piece) ==
    LET side == IF IS_BLACK(piece) THEN BLACK ELSE WHITE
        type == PIECE_TYPE(piece)
        idx == EVAL_INDEX(type)
        pst_sq == PstSq(side, sq)
        list_idx == b.piece_count[side]
    IN [b EXCEPT
          !.squares[sq] = piece,
          !.king_sq[side] = IF type = PIECE_KING THEN sq ELSE @,
          !.piece_list[side][list_idx] = sq,
          !.piece_index[sq] = list_idx,
          !.piece_count[side] = U8(list_idx + 1),
          !.bishop_count[side] = IF type = PIECE_BISHOP THEN U8(@ + 1) ELSE @,
          !.mg[side] = @ + MG(idx, pst_sq),
          !.eg[side] = @ + EG(idx, pst_sq),
          !.phase = U8(@ + PW(idx))]

\* the removal that leaves the index of the entry it swaps in as it was
plist_remove_keeps_index(b, side, sq) ==
    LET idx == b.piece_index[sq]
        last_idx == b.piece_count[side] - 1
        last_sq == b.piece_list[side][last_idx]
    IN IF idx = PLIST_INVALID \/ idx >= b.piece_count[side] THEN b
       ELSE [b EXCEPT !.piece_count[side] = last_idx,
                      !.piece_list[side][idx] = last_sq,
                      !.piece_index[sq] = PLIST_INVALID]

\* swap with last; squares[] is left to the caller
plist_remove(b, side, sq) ==
    LET idx == b.piece_index[sq]
        last_idx == b.piece_count[side] - 1
        last_sq == b.piece_list[side][last_idx]
    IN IF idx = PLIST_INVALID \/ idx >= b.piece_count[side] THEN b
       ELSE LET b1 == [b EXCEPT !.piece_count[side] = last_idx]
                b2 == IF idx # last_idx
                      THEN [b1 EXCEPT !.piece_list[side][idx] = last_sq,
                                      !.piece_index[last_sq] = idx]
                      ELSE b1
            IN [b2 EXCEPT !.piece_index[sq] = PLIST_INVALID]

plist_move(b, side, old_sq, new_sq) ==
    LET idx == b.piece_index[old_sq]
    IN IF idx = PLIST_INVALID \/ idx >= b.piece_count[side] THEN b
       ELSE LET b1 == [b EXCEPT !.piece_list[side][idx] = new_sq,
                                !.piece_index[new_sq] = idx]
            IN [b1 EXCEPT !.piece_index[old_sq] = PLIST_INVALID]

\* one step of the row-major scan of board_set_from_ui: cell i = 8 * r + c
AddUiCell(b, ui_board, i) ==
    IF ui_to_engine_piece(ui_board[i \div 8][i % 8]) # PIECE_NONE
    THEN board_add_piece(b, RC_TO_SQ(i \div 8, i % 8),
                         ui_to_engine_piece(ui_board[i \div 8][i % 8]))
    ELSE b

\* the scan over the cells lo .. hi - 1: the first half of them, then the
\* second half on the board the first half leaves
RECURSIVE AddUiPieces(_, _, _, _)
AddUiPieces(b, ui_board, lo, hi) ==
    IF hi = lo + 1 THEN AddUiCell(b, ui_board, lo)
    ELSE CHOOSE done \in {AddUiPieces(half, ui_board, (lo + hi) \div 2, hi) :
                            half \in {AddUiPieces(b, ui_board, lo, (lo + hi) \div 2)}} : TRUE

board_set_from_ui(ui_board, turn, castling, ep_row, ep_col, halfmove_clock, fullmove_number, w) ==
    LET b1 == AddUiPieces(board_init, ui_board, 0, 64)
        b2 == [b1 EXCEPT !.side = IF turn = 1 THEN WHITE ELSE BLACK,
                         !.castling = castling,
                         !.halfmove = halfmove_clock,
                         !.fullmove = fullmove_number,
                         !.ep_square = IF ep_row # 255 /\ ep_col # 255
                                       THEN RC_TO_SQ(ep_row, ep_col) ELSE @]
    IN board_compute_hash(b2, w)

\* switch (flags & FLAG_PROMO_MASK)
PromoType(flags) ==
    CASE (flags \div 16) % 4 = 1 -> PIECE_ROOK
      [] (flags \div 16) % 4 = 2 -> PIECE_BISHOP
      [] (flags \div 16) % 4 = 3 -> PIECE_KNIGHT
      [] OTHER -> PIECE_QUEEN

\* the hash, eval and piece-list part of removing the captured piece cpiece of
\* side opp from square csq (both capture branches of board_make)
RemoveCaptured(b, opp, csq, cpiece) ==
    LET c64 == SQ_TO_SQ64(csq)
        cap_pidx == zobrist_piece_index(cpiece)
        cap_eidx == EVAL_INDEX(PIECE_TYPE(cpiece))
        cap_pst == PstSq(opp, csq)
        b1 == [b EXCEPT
                 !.hash = Xor(@, zobrist_piece(cap_pidx, c64)),
                 !.lock = Xor(@, lock_piece(cap_pidx, c64)),
                 !.pawn_hash = IF PIECE_TYPE(cpiece) = PIECE_PAWN
                               THEN Xor(@, zobrist_piece(cap_pidx, c64)) ELSE @,
                 !.mg[opp] = @ - MG(cap_eidx, cap_pst),
                 !.eg[opp] = @ - EG(cap_eidx, cap_pst),
                 !.phase = U8(@ + 256 - PW(cap_eidx))]
        b2 == plist_remove(b1, opp, csq)
    IN [b2 EXCEPT !.bishop_count[opp] =
                     IF PIECE_TYPE(cpiece) = PIECE_BISHOP THEN U8(@ + 255) ELSE @]

\* the rook squares of a castling move of the king from `from` to `to`
RookFrom(from, to) == IF to > from THEN U8(from + 3) ELSE U8(from + 252)
RookTo(from, to) == IF to > from THEN U8(from + 1) ELSE U8(from + 255)

\* the captured pawn's square of an en passant move to `to` by `side`
EpCapSq(side, to) == IF side = WHITE THEN U8(to + 16) ELSE U8(to + 240)

\* board_make, "Save undo state"; captured is overwritten with the pawn
\* taken when the move is an en passant capture
MakeUndo(b, m) ==
    [captured    |-> IF HasFlag(m.flags, FLAG_EN_PASSANT)
                     THEN b.squares[EpCapSq(b.side, m.to)] ELSE b.squares[m.to],
     castling    |-> b.castling,
     ep_square   |-> b.ep_square,
     halfmove    |-> b.halfmove,
     fullmove    |-> b.fullmove,
     pawn_hash   |-> b.pawn_hash,
     hash        |-> b.hash,
     lock        |-> b.lock,
     moved_piece |-> b.squares[m.from],
     flags       |-> m.flags]

\* the lift with a clock that goes round after 255
MakeLift_clock_wraps(b, m) ==
    LET piece == b.squares[m.from]
        isPawn == PIECE_TYPE(piece) = PIECE_PAWN
        k == zobrist_piece(zobrist_piece_index(piece), SQ_TO_SQ64(m.from))
    IN [b EXCEPT
          !.halfmove = IF isPawn \/ HasFlag(m.flags, FLAG_CAPTURE) THEN 0 ELSE U8(@ + 1),
          !.hash = Xor(@, k),
          !.lock = Xor(@, lock_piece(zobrist_piece_index(piece), SQ_TO_SQ64(m.from))),
          !.pawn_hash = IF isPawn THEN Xor(@, k) ELSE @,
          !.mg[b.side] = @ - MG(EVAL_INDEX(PIECE_TYPE(piece)), PstSq(b.side, m.from)),
          !.eg[b.side] = @ - EG(EVAL_INDEX(PIECE_TYPE(piece)), PstSq(b.side, m.from))]

\* halfmove clock, then the piece leaves its origin (hash + eval)
MakeLift(b, m) ==
    LET piece == b.squares[m.from]
        isPawn == PIECE_TYPE(piece) = PIECE_PAWN
        k == zobrist_piece(zobrist_piece_index(piece), SQ_TO_SQ64(m.from))
    IN [b EXCEPT
          !.halfmove = IF isPawn \/ HasFlag(m.flags, FLAG_CAPTURE) THEN 0
                       ELSE IF @ < 255 THEN @ + 1 ELSE @,
          !.hash = Xor(@, k),
          !.lock = Xor(@, lock_piece(zobrist_piece_index(piece), SQ_TO_SQ64(m.from))),
          !.pawn_hash = IF isPawn THEN Xor(@, k) ELSE @,
          !.mg[b.side] = @ - MG(EVAL_INDEX(PIECE_TYPE(piece)), PstSq(b.side, m.from)),
          !.eg[b.side] = @ - EG(EVAL_INDEX(PIECE_TYPE(piece)), PstSq(b.side, m.from))]

\* "Handle capture": en passant takes the pawn beside the target square
MakeCapture(b, m) ==
    IF HasFlag(m.flags, FLAG_EN_PASSANT)
    THEN IF b.squares[EpCapSq(b.side, m.to)] # PIECE_NONE
         THEN RemoveCaptured([b EXCEPT !.squares[EpCapSq(b.side, m.to)] = PIECE_NONE],
                             1 - b.side, EpCapSq(b.side, m.to),
                             b.squares[EpCapSq(b.side, m.to)])
         ELSE b
    ELSE IF b.squares[m.to] # PIECE_NONE
         THEN RemoveCaptured(b, 1 - b.side, m.to, b.squares[m.to])
         ELSE b

\* "Move piece on board", "Update piece list", "Place piece at destination"
MakePlace(b, m) ==
    LET piece == b.squares[m.from]
        isPawn == PIECE_TYPE(piece) = PIECE_PAWN
        k == zobrist_piece(zobrist_piece_index(piece), SQ_TO_SQ64(m.to))
    IN plist_move(
         [b EXCEPT
            !.squares[m.from] = PIECE_NONE,
            !.squares[m.to] = piece,
            !.hash = Xor(@, k),
            !.lock = Xor(@, lock_piece(zobrist_piece_index(piece), SQ_TO_SQ64(m.to))),
            !.pawn_hash = IF isPawn THEN Xor(@, k) ELSE @,
            !.mg[b.side] = @ + MG(EVAL_INDEX(PIECE_TYPE(piece)), PstSq(b.side, m.to)),
            !.eg[b.side] = @ + EG(EVAL_INDEX(PIECE_TYPE(piece)), PstSq(b.side, m.to))],
         b.side, m.from, m.to)

\* the promotion that leaves the phase as it is
MakePromotion_keeps_phase(b, m) ==
    LET pawn == b.squares[m.to]
        pidx == zobrist_piece_index(pawn)
        to64 == SQ_TO_SQ64(m.to)
        pst_to == PstSq(b.side, m.to)
        promo_type == PromoType(m.flags)
        promo_piece == MAKE_PIECE(IF b.side = WHITE THEN COLOR_WHITE ELSE COLOR_BLACK, promo_type)
        promo_pidx == zobrist_piece_index(promo_piece)
    IN IF HasFlag(m.flags, FLAG_PROMOTION)
       THEN [b EXCEPT
               !.hash = Xor(Xor(@, zobrist_piece(pidx, to64)), zobrist_piece(promo_pidx, to64)),
               !.lock = Xor(Xor(@, lock_piece(pidx, to64)), lock_piece(promo_pidx, to64)),
               !.pawn_hash = Xor(@, zobrist_piece(pidx, to64)),
               !.mg[b.side] = @ - MG(EVAL_INDEX(PIECE_TYPE(pawn)), pst_to)
                                + MG(EVAL_INDEX(promo_type), pst_to),
               !.eg[b.side] = @ - EG(EVAL_INDEX(PIECE_TYPE(pawn)), pst_to)
                                + EG(EVAL_INDEX(promo_type), pst_to),
               !.bishop_count[b.side] = IF promo_type = PIECE_BISHOP THEN U8(@ + 1) ELSE @,
               !.squares[m.to] = promo_piece]
       ELSE b

\* "Handle promotion": the pawn now on m.to becomes the promoted piece
MakePromotion(b, m) ==
    LET pawn == b.squares[m.to]
        pidx == zobrist_piece_index(pawn)
        to64 == SQ_TO_SQ64(m.to)
        pst_to == PstSq(b.side, m.to)
        promo_type == PromoType(m.flags)
        promo_piece == MAKE_PIECE(IF b.side = WHITE THEN COLOR_WHITE ELSE COLOR_BLACK, promo_type)
        promo_pidx == zobrist_piece_index(promo_piece)
    IN IF HasFlag(m.flags, FLAG_PROMOTION)
       THEN [b EXCEPT
               !.hash = Xor(Xor(@, zobrist_piece(pidx, to64)), zobrist_piece(promo_pidx, to64)),
               !.lock = Xor(Xor(@, lock_piece(pidx, to64)), lock_piece(promo_pidx, to64)),
               !.pawn_hash = Xor(@, zobrist_piece(pidx, to64)),
               !.mg[b.side] = @ - MG(EVAL_INDEX(PIECE_TYPE(pawn)), pst_to)
                                + MG(EVAL_INDEX(promo_type), pst_to),
               !.eg[b.side] = @ - EG(EVAL_INDEX(PIECE_TYPE(pawn)), pst_to)
                                + EG(EVAL_INDEX(promo_type), pst_to),
               !.phase = U8(@ + PW(EVAL_INDEX(promo_type))),
               !.bishop_count[b.side] = IF promo_type = PIECE_BISHOP THEN U8(@ + 1) ELSE @,
               !.squares[m.to] = promo_piece]
       ELSE b

\* "Handle castling (move the rook)" and "Update king square"
MakeCastle(b, m) ==
    LET rook_from == RookFrom(m.from, m.to)
        rook_to == RookTo(m.from, m.to)
        rook == b.squares[rook_from]
        rook_pidx == zobrist_piece_index(rook)
        rf64 == SQ_TO_SQ64(rook_from)
        rt64 == SQ_TO_SQ64(rook_to)
        rookIdx == EVAL_INDEX(PIECE_ROOK)
        king == IF PIECE_TYPE(b.squares[m.to]) = PIECE_KING THEN m.to ELSE b.king_sq[b.side]
    IN IF HasFlag(m.flags, FLAG_CASTLE)
       THEN plist_move(
              [b EXCEPT
                 !.hash = Xor(Xor(@, zobrist_piece(rook_pidx, rf64)),
                              zobrist_piece(rook_pidx, rt64)),
                 !.lock = Xor(Xor(@, lock_piece(rook_pidx, rf64)), lock_piece(rook_pidx, rt64)),
                 !.mg[b.side] = @ - MG(rookIdx, PstSq(b.side, rook_from))
                                  + MG(rookIdx, PstSq(b.side, rook_to)),
                 !.eg[b.side] = @ - EG(rookIdx, PstSq(b.side, rook_from))
                                  + EG(rookIdx, PstSq(b.side, rook_to)),
                 !.squares[rook_from] = PIECE_NONE,
                 !.squares[rook_to] = rook,
                 !.king_sq[b.side] = king],
              b.side, rook_from, rook_to)
       ELSE [b EXCEPT !.king_sq[b.side] = king]

\* rights masked by the origin square alone
MakeRights_of_origin(b, m) ==
    LET old_castling == b.castling
        new_castling == BitAnd(b.castling, castling_mask(m.from))
    IN IF old_castling # new_castling
       THEN [b EXCEPT
               !.castling = new_castling,
               !.hash = Xor(Xor(@, zobrist_castle(old_castling)), zobrist_castle(new_castling)),
               !.lock = Xor(Xor(@, lock_castle(old_castling)), lock_castle(new_castling))]
       ELSE b

\* "Update castling rights"
MakeRights(b, m) ==
    LET old_castling == b.castling
        new_castling == BitAnd(BitAnd(b.castling, castling_mask(m.from)), castling_mask(m.to))
    IN IF old_castling # new_castling
       THEN [b EXCEPT
               !.castling = new_castling,
               !.hash = Xor(Xor(@, zobrist_castle(old_castling)), zobrist_castle(new_castling)),
               !.lock = Xor(Xor(@, lock_castle(old_castling)), lock_castle(new_castling))]
       ELSE b

\* an en passant file key XORed into a word when the square is set
EpKey(word, ep, lock) ==
    IF ep = SQ_NONE THEN word
    ELSE Xor(word, IF lock THEN lock_ep_file(SQ_TO_COL(ep)) ELSE zobrist_ep_file(SQ_TO_COL(ep)))

\* "Update en passant square", "Flip side to move", "Update fullmove counter"
MakeFlip(b, m) ==
    LET new_ep == IF HasFlag(m.flags, FLAG_DOUBLE_PUSH)
                  THEN (IF b.side = WHITE THEN U8(m.from + 240) ELSE U8(m.from + 16))
                  ELSE SQ_NONE
    IN [b EXCEPT
          !.ep_square = new_ep,
          !.side = 1 - @,
          !.hash = Xor(EpKey(EpKey(@, b.ep_square, FALSE), new_ep, FALSE), zobrist_side),
          !.lock = Xor(EpKey(EpKey(@, b.ep_square, TRUE), new_ep, TRUE), lock_side),
          !.fullmove = IF b.side = BLACK THEN (@ + 1) % 65536 ELSE @]

\* board_make(b, m, u): the board after the move and the undo record
board_make(b, m) ==
    [b |-> MakeFlip(MakeRights(MakeCastle(MakePromotion(MakePlace(MakeCapture(
               MakeLift(b, m), m), m), m), m), m), m),
     u |-> MakeUndo(b, m)]

\* the captured piece comes back without being counted as a bishop
RestoreCaptured_forgets_bishop(b, opp, csq, cpiece) ==
    LET cap_eidx == EVAL_INDEX(PIECE_TYPE(cpiece))
        cap_pst == PstSq(opp, csq)
        n == b.piece_count[opp]
    IN [b EXCEPT
          !.mg[opp] = IF cpiece # PIECE_NONE THEN @ + MG(cap_eidx, cap_pst) ELSE @,
          !.eg[opp] = IF cpiece # PIECE_NONE THEN @ + EG(cap_eidx, cap_pst) ELSE @,
          !.phase = IF cpiece # PIECE_NONE THEN U8(@ + PW(cap_eidx)) ELSE @,
          !.squares[csq] = cpiece,
          !.piece_list[opp][n] = csq,
          !.piece_index[csq] = n,
          !.piece_count[opp] = U8(n + 1)]

\* the captured piece comes back: eval restored when it is a piece, and the
\* square appended at the tail of the opponent's piece list
RestoreCaptured(b, opp, csq, cpiece) ==
    LET cap_eidx == EVAL_INDEX(PIECE_TYPE(cpiece))
        cap_pst == PstSq(opp, csq)
        n == b.piece_count[opp]
    IN [b EXCEPT
          !.mg[opp] = IF cpiece # PIECE_NONE THEN @ + MG(cap_eidx, cap_pst) ELSE @,
          !.eg[opp] = IF cpiece # PIECE_NONE THEN @ + EG(cap_eidx, cap_pst) ELSE @,
          !.phase = IF cpiece # PIECE_NONE THEN U8(@ + PW(cap_eidx)) ELSE @,
          !.bishop_count[opp] =
              IF cpiece # PIECE_NONE /\ PIECE_TYPE(cpiece) = PIECE_BISHOP THEN U8(@ + 1) ELSE @,
          !.squares[csq] = cpiece,
          !.piece_list[opp][n] = csq,
          !.piece_index[csq] = n,
          !.piece_count[opp] = U8(n + 1)]

\* "Flip side back" and "Handle promotion": the pawn comes back on m.to
UnPromotion(b, m, u) ==
    LET side == 1 - b.side
        eidx == EVAL_INDEX(PIECE_TYPE(u.moved_piece))
        pst_to == PstSq(side, m.to)
        promo_type == PromoType(u.flags)
    IN IF HasFlag(u.flags, FLAG_PROMOTION)
       THEN [b EXCEPT
               !.side = side,
               !.mg[side] = @ - MG(EVAL_INDEX(promo_type), pst_to) + MG(eidx, pst_to),
               !.eg[side] = @ - EG(EVAL_INDEX(promo_type), pst_to) + EG(eidx, pst_to),
               !.phase = U8(@ + 256 - PW(EVAL_INDEX(promo_type))),
               !.bishop_count[side] = IF promo_type = PIECE_BISHOP THEN U8(@ + 255) ELSE @,
               !.squares[m.to] = u.moved_piece]
       ELSE [b EXCEPT !.side = side]

\* "Move piece back" and "Restore king square"
UnPlace(b, m, u) ==
    LET eidx == EVAL_INDEX(PIECE_TYPE(u.moved_piece))
    IN plist_move(
         [b EXCEPT
            !.mg[b.side] = @ - MG(eidx, PstSq(b.side, m.to)) + MG(eidx, PstSq(b.side, m.from)),
            !.eg[b.side] = @ - EG(eidx, PstSq(b.side, m.to)) + EG(eidx, PstSq(b.side, m.from)),
            !.squares[m.from] = u.moved_piece,
            !.squares[m.to] = PIECE_NONE,
            !.king_sq[b.side] = IF PIECE_TYPE(u.moved_piece) = PIECE_KING THEN m.from ELSE @],
         b.side, m.to, m.from)

\* "Handle castling (move the rook back + undo eval)"
UnCastle(b, m, u) ==
    LET rook_from == RookFrom(m.from, m.to)
        rook_to == RookTo(m.from, m.to)
        rookIdx == EVAL_INDEX(PIECE_ROOK)
    IN IF HasFlag(u.flags, FLAG_CASTLE)
       THEN plist_move(
              [b EXCEPT
                 !.mg[b.side] = @ - MG(rookIdx, PstSq(b.side, rook_to))
                                  + MG(rookIdx, PstSq(b.side, rook_from)),
                 !.eg[b.side] = @ - EG(rookIdx, PstSq(b.side, rook_to))
                                  + EG(rookIdx, PstSq(b.side, rook_from)),
                 !.squares[rook_from] = b.squares[rook_to],
                 !.squares[rook_to] = PIECE_NONE],
              b.side, rook_to, rook_from)
       ELSE b

\* "Restore captured piece + eval"
UnCapture(b, m, u) ==
    IF HasFlag(u.flags, FLAG_EN_PASSANT)
    THEN RestoreCaptured(b, 1 - b.side, EpCapSq(b.side, m.to), u.captured)
    ELSE IF u.captured # PIECE_NONE
         THEN RestoreCaptured(b, 1 - b.side, m.to, u.captured)
         ELSE b

\* "Restore state from undo"
UnState(b, u) ==
    [b EXCEPT
       !.castling = u.castling,
       !.ep_square = u.ep_square,
       !.halfmove = u.halfmove,
       !.fullmove = u.fullmove,
       !.pawn_hash = u.pawn_hash,
       !.hash = u.hash,
       !.lock = u.lock]

board_unmake(b, m, u) ==
    UnState(UnCapture(UnCastle(UnPlace(UnPromotion(b, m, u), m, u), m, u), m, u), u)

\* ------------------------------------------------------------------------
\* movegen.c
\* ------------------------------------------------------------------------

GEN_ALL == 0
GEN_CAPTURES == 1
GEN_QUIETS == 2

knight_offsets == <<-33, -31, -18, -14, 14, 18, 31, 33>>
bishop_offsets == <<-17, -15, 15, 17>>
rook_offsets == <<-16, -1, 1, 16>>
king_offsets == <<-17, -16, -15, -1, 1, 15, 16, 17>>

\* uint8_t target = sq + dir, dir an int8_t
Step(sq, dir) == U8(sq + 256 + dir)

PIECE_COLOR(p) == (p \div 128) * 128

is_enemy(piece, side) ==
    piece # PIECE_NONE /\ (IF IS_BLACK(piece) THEN BLACK ELSE WHITE) # side

make_move(from, to, flags) == [from |-> from, to |-> to, flags |-> flags]

\* the four promotion moves, in the order they are written to the list
PromoMoves(sq, target, base) ==
    << make_move(sq, target, base + FLAG_PROMOTION),
       make_move(sq, target, base + FLAG_PROMOTION + FLAG_PROMO_R),
       make_move(sq, target, base + FLAG_PROMOTION + FLAG_PROMO_B),
       make_move(sq, target, base + FLAG_PROMOTION + FLAG_PROMO_N) >>

gen_pawn_moves(b, sq, side, mode) ==
    LET dir == IF side = WHITE THEN -16 ELSE 16
        start_row == IF side = WHITE THEN 6 ELSE 1
        promo_row == IF side = WHITE THEN 0 ELSE 7
        row == SQ_TO_ROW(sq)
        t1 == Step(sq, dir)
        t2 == Step(sq, dir + dir)
        pushes ==
            IF mode # GEN_CAPTURES /\ SQ_VALID(t1) /\ b.squares[t1] = PIECE_NONE
            THEN (IF SQ_TO_ROW(t1) = promo_row THEN PromoMoves(sq, t1, 0)
                  ELSE << make_move(sq, t1, 0) >>)
                 \o (IF row = start_row /\ SQ_VALID(t2) /\ b.squares[t2] = PIECE_NONE
                     THEN << make_move(sq, t2, FLAG_DOUBLE_PUSH) >> ELSE << >>)
            ELSE << >>
        Cap(cd) ==
            LET target == Step(sq, cd)
            IN IF ~SQ_VALID(target) THEN << >>
               ELSE IF is_enemy(b.squares[target], side)
               THEN (IF SQ_TO_ROW(target) = promo_row THEN PromoMoves(sq, target, FLAG_CAPTURE)
                     ELSE << make_move(sq, target, FLAG_CAPTURE) >>)
               ELSE IF target = b.ep_square
               THEN << make_move(sq, target, FLAG_CAPTURE + FLAG_EN_PASSANT) >>
               ELSE << >>
    IN pushes \o (IF mode # GEN_QUIETS THEN Cap(dir - 1) \o Cap(dir + 1) ELSE << >>)

\* one step of a knight or a king from sq by offset off
StepMove(b, sq, side, off, mode) ==
    LET target == Step(sq, off)
        occ == b.squares[target]
    IN IF ~SQ_VALID(target) THEN << >>
       ELSE IF occ = PIECE_NONE
       THEN (IF mode # GEN_CAPTURES THEN << make_move(sq, target, 0) >> ELSE << >>)
       ELSE IF is_enemy(occ, side) /\ mode # GEN_QUIETS
       THEN << make_move(sq, target, FLAG_CAPTURE) >>
       ELSE << >>

StepMoves(b, sq, side, o, mode) ==
    StepMove(b, sq, side, o[1], mode) \o StepMove(b, sq, side, o[2], mode)
    \o StepMove(b, sq, side, o[3], mode) \o StepMove(b, sq, side, o[4], mode)
    \o StepMove(b, sq, side, o[5], mode) \o StepMove(b, sq, side, o[6], mode)
    \o StepMove(b, sq, side, o[7], mode) \o StepMove(b, sq, side, o[8], mode)

gen_knight_moves(b, sq, side, mode) == StepMoves(b, sq, side, knight_offsets, mode)

\* the while loop of gen_sliding_moves along one direction, from target on
RECURSIVE SlideRay(_, _, _, _, _, _)
SlideRay(b, sq, side, dir, target, mode) ==
    IF ~SQ_VALID(target) THEN << >>
    ELSE LET occ == b.squares[target]
         IN IF occ = PIECE_NONE
            THEN (IF mode # GEN_CAPTURES THEN << make_move(sq, target, 0) >> ELSE << >>)
                 \o SlideRay(b, sq, side, dir, Step(target, dir), mode)
            ELSE IF is_enemy(occ, side) /\ mode # GEN_QUIETS
            THEN << make_move(sq, target, FLAG_CAPTURE) >>
            ELSE << >>

gen_sliding_moves(b, sq, side, offsets, mode) ==
    SlideRay(b, sq, side, offsets[1], Step(sq, offsets[1]), mode)
    \o SlideRay(b, sq, side, offsets[2], Step(sq, offsets[2]), mode)
    \o SlideRay(b, sq, side, offsets[3], Step(sq, offsets[3]), mode)
    \o SlideRay(b, sq, side, offsets[4], Step(sq, offsets[4]), mode)

\* the first piece met from `target` along dir belongs to the attacker and is
\* of type t or a queen
RECURSIVE RayAttack(_, _, _, _, _)
RayAttack(b, target, dir, attacker_color, t) ==
    IF ~SQ_VALID(target) THEN FALSE
    ELSE LET p == b.squares[target]
         IN IF p # PIECE_NONE
            THEN PIECE_COLOR(p) = attacker_color
                 /\ (PIECE_TYPE(p) = t \/ PIECE_TYPE(p) = PIECE_QUEEN)
            ELSE RayAttack(b, Step(target, dir), dir, attacker_color, t)

is_square_attacked(b, sq, by_side) ==
    LET attacker_color == IF by_side = WHITE THEN COLOR_WHITE ELSE COLOR_BLACK
        pawn_dir == IF by_side = WHITE THEN 16 ELSE -16
        pawn == MAKE_PIECE(attacker_color, PIECE_PAWN)
        At(off, piece) ==
            LET target == Step(sq, off)
            IN SQ_VALID(target) /\ b.squares[target] = piece
    IN \/ \E i \in 1..8 : At(knight_offsets[i], MAKE_PIECE(attacker_color, PIECE_KNIGHT))
       \/ At(pawn_dir - 1, pawn)
       \/ At(pawn_dir + 1, pawn)
       \/ \E i \in 1..8 : At(king_offsets[i], MAKE_PIECE(attacker_color, PIECE_KING))
       \/ \E i \in 1..4 : RayAttack(b, Step(sq, bishop_offsets[i]), bishop_offsets[i],
                                    attacker_color, PIECE_BISHOP)
       \/ \E i \in 1..4 : RayAttack(b, Step(sq, rook_offsets[i]), rook_offsets[i],
                                    attacker_color, PIECE_ROOK)

\* castling that asks only the king's own square and its destination to be
\* free of attack
CastleMoves_over_attacked_square(b, side, e, kbit, qbit) ==
    LET opp == 1 - side
        rook == MAKE_PIECE(IF side = WHITE THEN COLOR_WHITE ELSE COLOR_BLACK, PIECE_ROOK)
    IN IF is_square_attacked(b, e, opp) THEN << >>
       ELSE (IF /\ HasFlag(b.castling, kbit)
                /\ b.squares[e + 3] = rook
                /\ b.squares[e + 1] = PIECE_NONE
                /\ b.squares[e + 2] = PIECE_NONE
                /\ ~is_square_attacked(b, e + 2, opp)
             THEN << make_move(e, e + 2, FLAG_CASTLE) >> ELSE << >>)
            \o
            (IF /\ HasFlag(b.castling, qbit)
                /\ b.squares[e - 4] = rook
                /\ b.squares[e - 1] = PIECE_NONE
                /\ b.squares[e - 2] = PIECE_NONE
                /\ b.squares[e - 3] = PIECE_NONE
                /\ ~is_square_attacked(b, e - 2, opp)
             THEN << make_move(e, e - 2, FLAG_CASTLE) >> ELSE << >>)

\* the castling part of gen_king_moves for the king of `side` on its home
\* square e: kingside, then queenside; nothing when the king is in check
CastleMoves(b, side, e, kbit, qbit) ==
    LET opp == 1 - side
        rook == MAKE_PIECE(IF side = WHITE THEN COLOR_WHITE ELSE COLOR_BLACK, PIECE_ROOK)
    IN IF is_square_attacked(b, e, opp) THEN << >>
       ELSE (IF /\ HasFlag(b.castling, kbit)
                /\ b.squares[e + 3] = rook
                /\ b.squares[e + 1] = PIECE_NONE
                /\ b.squares[e + 2] = PIECE_NONE
                /\ ~is_square_attacked(b, e + 1, opp)
                /\ ~is_square_attacked(b, e + 2, opp)
             THEN << make_move(e, e + 2, FLAG_CASTLE) >> ELSE << >>)
            \o
            (IF /\ HasFlag(b.castling, qbit)
                /\ b.squares[e - 4] = rook
                /\ b.squares[e - 1] = PIECE_NONE
                /\ b.squares[e - 2] = PIECE_NONE
                /\ b.squares[e - 3] = PIECE_NONE
                /\ ~is_square_attacked(b, e - 1, opp)
                /\ ~is_square_attacked(b, e - 2, opp)
             THEN << make_move(e, e - 2, FLAG_CASTLE) >> ELSE << >>)

gen_king_moves(b, sq, side, mode) ==
    StepMoves(b, sq, side, king_offsets, mode)
    \o (IF mode = GEN_CAPTURES THEN << >>
        ELSE IF side = WHITE /\ sq = 116
                /\ (HasFlag(b.castling, CASTLE_WK) \/ HasFlag(b.castling, CASTLE_WQ))
        THEN CastleMoves(b, WHITE, 116, CASTLE_WK, CASTLE_WQ)
        ELSE IF side = BLACK /\ sq = 4
                /\ (HasFlag(b.castling, CASTLE_BK) \/ HasFlag(b.castling, CASTLE_BQ))
        THEN CastleMoves(b, BLACK, 4, CASTLE_BK, CASTLE_BQ)
        ELSE << >>)

gen_piece_moves(b, sq, side, mode) ==
    LET type == PIECE_TYPE(b.squares[sq])
    IN CASE type = PIECE_PAWN -> gen_pawn_moves(b, sq, side, mode)
         [] type = PIECE_KNIGHT -> gen_knight_moves(b, sq, side, mode)
         [] type = PIECE_BISHOP -> gen_sliding_moves(b, sq, side, bishop_offsets, mode)
         [] type = PIECE_ROOK -> gen_sliding_moves(b, sq, side, rook_offsets, mode)
         [] type = PIECE_QUEEN -> gen_sliding_moves(b, sq, side, bishop_offsets, mode)
                                  \o gen_sliding_moves(b, sq, side, rook_offsets, mode)
         [] type = PIECE_KING -> gen_king_moves(b, sq, side, mode)
         [] OTHER -> << >>

\* generate_moves: the pieces of the side to move in piece-list order
RECURSIVE GenFrom(_, _, _)
GenFrom(b, i, mode) ==
    IF i >= b.piece_count[b.side] THEN << >>
    ELSE gen_piece_moves(b, b.piece_list[b.side][i], b.side, mode) \o GenFrom(b, i + 1, mode)

generate_moves(b, mode) == GenFrom(b, 0, mode)

generate_moves_from(b, from_sq) ==
    LET piece == b.squares[from_sq]
    IN IF piece = PIECE_NONE THEN << >>
       ELSE IF (IF IS_BLACK(piece) THEN BLACK ELSE WHITE) # b.side THEN << >>
       ELSE gen_piece_moves(b, from_sq, b.side, GEN_ALL)

board_is_legal(b) == ~is_square_attacked(b, b.king_sq[1 - b.side], b.side)

\* ------------------------------------------------------------------------
\* eval.c: the pawn cache and evaluate
\* ------------------------------------------------------------------------

PHASE_MAX == 24
BISHOP_PAIR_MG == 19
BISHOP_PAIR_EG == 58
TEMPO_MG == 10
TEMPO_EG == 9
DOUBLED_MG == 12
DOUBLED_EG == 3
ISOLATED_MG == 12
ISOLATED_EG == 17
ROOK_OPEN_MG == 38
ROOK_OPEN_EG == 24
ROOK_SEMIOPEN_MG == 23
ROOK_SEMIOPEN_EG == 11
SHIELD_MG == 6
SHIELD_EG == 0
PAWN_CACHE_SIZE == 32
PAWN_CACHE_WAYS == 4
PAWN_CACHE_SETS == 8

\* indexed by ri = rel_rank - 2 (0-based in the source, 1-based here)
connected_bonus_mg == <<0, 9, 10, 16, 39, 65>>
connected_bonus_eg == <<0, 9, 10, 16, 39, 65>>
passed_mg == <<0, 0, 0, 7, 43, 85>>
passed_eg == <<13, 27, 41, 67, 131, 229>>
knight_mob_mg == <<-19, -13, -6, 0, 6, 13, 16, 17, 19>>
knight_mob_eg == <<-61, -43, -24, -2, 13, 26, 41, 45, 50>>
bishop_mob_mg == <<-12, -6, 2, 9, 11, 16, 18, 21, 25, 27, 29, 30, 32, 37>>
bishop_mob_eg == <<-17, -9, -1, 7, 12, 17, 23, 27, 32, 35, 37, 39, 41, 40>>

\* a pair <<mg, eg>> of middlegame and endgame terms
Add2(x, y) == <<x[1] + y[1], x[2] + y[2]>>
Sub2(x, y) == <<x[1] - y[1], x[2] - y[2]>>

\* the sum of the pairs f[x], x in the domain of f
RECURSIVE Sum2(_)
Sum2(f) ==
    IF DOMAIN f = {} THEN <<0, 0>>
    ELSE LET x == CHOOSE x \in DOMAIN f : TRUE
         IN Add2(f[x], Sum2([y \in DOMAIN f \ {x} |-> f[y]]))

\* C integer division, which truncates toward zero (d > 0)
TruncDiv(n, d) == IF n >= 0 THEN n \div d ELSE -((-n) \div d)

\* b->squares[t] for a byte t: board_t lays piece_list[2][16] and
\* piece_index[128] directly behind squares[128], and the sliding loops index
\* squares with a uint8_t that runs up to 255
SquaresAt(b, t) ==
    IF t < 128 THEN b.squares[t]
    ELSE IF t < 160 THEN b.piece_list[(t - 128) \div 16][(t - 128) % 16]
    ELSE b.piece_index[t - 160]

\* the squares of the pieces of `side` of the given type, from the piece list
PiecesOf(b, side, type) ==
    {sq \in {b.piece_list[side][i] : i \in 0..(b.piece_count[side] - 1)} :
        PIECE_TYPE(b.squares[sq]) = type}

\* a zero-filled pawn_cache_entry_t: w_pawns and b_pawns are kept as the set
\* of rows per file, pawn_atk as the squares attacked by white (bit 0) and by
\* black (bit 1)
PawnCacheZero ==
    [key |-> {}, pawn_mg |-> 0, pawn_eg |-> 0,
     w_pawns |-> [c \in 0..7 |-> {}], b_pawns |-> [c \in 0..7 |-> {}],
     atk_w |-> {}, atk_b |-> {}]

\* the static pawn_cache[] and pawn_cache_victim[] before the first call
pawn_cache_init ==
    [slots |-> [i \in 0..(PAWN_CACHE_SIZE - 1) |-> PawnCacheZero],
     victim |-> [s \in 0..(PAWN_CACHE_SETS - 1) |-> 0]]

FileRows(pawns, c) == {SQ_TO_ROW(sq) : sq \in {s \in pawns : SQ_TO_COL(s) = c}}

PawnAttacks(pawns, d1, d2) ==
    {a \in {Step(sq, d1) : sq \in pawns} \cup {Step(sq, d2) : sq \in pawns} : SQ_VALID(a)}

\* the rows of the neighbouring files
AdjRows(files, col) ==
    (IF col > 0 THEN files[col - 1] ELSE {}) \cup (IF col < 7 THEN files[col + 1] ELSE {})

\* the structure terms of one pawn: own/enemy are the file masks, behind1 and
\* behind2 the offsets of the squares a supporting pawn stands on, ahead the
\* rows in front of the pawn
PawnTerm(b, own, enemy, sq, pawn, rel_rank, behind1, behind2, ahead) ==
    LET row == SQ_TO_ROW(sq)
        col == SQ_TO_COL(sq)
        s1 == Step(sq, behind1)
        s2 == Step(sq, behind2)
        supported == \/ (SQ_VALID(s1) /\ b.squares[s1] = pawn)
                     \/ (SQ_VALID(s2) /\ b.squares[s2] = pawn)
        passed == /\ rel_rank >= 2
                  /\ enemy[col] \cap ahead = {}
                  /\ (col = 0 \/ enemy[col - 1] \cap ahead = {})
                  /\ (col = 7 \/ enemy[col + 1] \cap ahead = {})
    IN <<(IF own[col] \ {row} # {} THEN -DOUBLED_MG ELSE 0)
         + (IF AdjRows(own, col) = {} THEN -ISOLATED_MG ELSE 0)
         + (IF supported /\ rel_rank >= 2 THEN connected_bonus_mg[rel_rank - 1] ELSE 0)
         + (IF passed THEN passed_mg[rel_rank - 1] ELSE 0),
         (IF own[col] \ {row} # {} THEN -DOUBLED_EG ELSE 0)
         + (IF AdjRows(own, col) = {} THEN -ISOLATED_EG ELSE 0)
         + (IF supported /\ rel_rank >= 2 THEN connected_bonus_eg[rel_rank - 1] ELSE 0)
         + (IF passed THEN passed_eg[rel_rank - 1] ELSE 0)>>

PawnEntry(b, w, wp, bp, wf, bf, terms) ==
    [key |-> Low(b.pawn_hash, w), pawn_mg |-> terms[1], pawn_eg |-> terms[2],
     w_pawns |-> wf, b_pawns |-> bf,
     atk_w |-> PawnAttacks(wp, -17, -15), atk_b |-> PawnAttacks(bp, 17, 15)]

PawnTerms(b, wp, bp, wf, bf) ==
    Sub2(Sum2([sq \in wp |-> PawnTerm(b, wf, bf, sq, MAKE_PIECE(COLOR_WHITE, PIECE_PAWN),
                                       7 - SQ_TO_ROW(sq), 17, 15,
                                       0..(SQ_TO_ROW(sq) - 1))]),
         Sum2([sq \in bp |-> PawnTerm(b, bf, wf, sq, MAKE_PIECE(COLOR_BLACK, PIECE_PAWN),
                                       SQ_TO_ROW(sq), -17, -15,
                                       (SQ_TO_ROW(sq) + 1)..7)]))

PawnFiles(b, w, wp, bp, wf, bf) == PawnEntry(b, w, wp, bp, wf, bf, PawnTerms(b, wp, bp, wf, bf))

PawnSets(b, w, wp, bp) ==
    PawnFiles(b, w, wp, bp, [c \in 0..7 |-> FileRows(wp, c)], [c \in 0..7 |-> FileRows(bp, c)])

\* the entry built for the pawns of b; its key is a zhash_t, w bits wide
build_pawn_cache(b, w) ==
    PawnSets(b, w, PiecesOf(b, WHITE, PIECE_PAWN), PiecesOf(b, BLACK, PIECE_PAWN))

\* the probe at the head of evaluate: the slot holding the data of b's pawns
\* and the cache after the probe (a miss rebuilds the victim way of the set)
PawnProbeMiss(b, cache, w, set, victim) ==
    [slot |-> set * PAWN_CACHE_WAYS + victim,
     cache |-> [slots |-> [cache.slots EXCEPT ![set * PAWN_CACHE_WAYS + victim] =
                              build_pawn_cache(b, w)],
                victim |-> [cache.victim EXCEPT ![set] = (victim + 1) % PAWN_CACHE_WAYS]]]

PawnProbeSet(b, cache, w, set) ==
    LET hits == {k \in 0..(PAWN_CACHE_WAYS - 1) :
                    cache.slots[set * PAWN_CACHE_WAYS + k].key = b.pawn_hash}
    IN IF hits # {}
       THEN [slot |-> set * PAWN_CACHE_WAYS + (CHOOSE k \in hits : \A j \in hits : k <= j),
             cache |-> cache]
       ELSE PawnProbeMiss(b, cache, w, set, cache.victim[set])

PawnProbe(b, cache, w) == PawnProbeSet(b, cache, w, ToNat(Low(b.pawn_hash, 3)))

OwnPiece(occ, side) == IF side = WHITE THEN IS_WHITE(occ) ELSE IS_BLACK(occ)

\* pawn_atk[dest] & enemy bit; a dest of 128 or more lies behind the array and
\* reads the byte oob
PawnAtkBit(atk, oob, dest) == IF dest < 128 THEN dest \in atk ELSE oob

RookFiles(b, own, enemy, side) ==
    Sum2([sq \in PiecesOf(b, side, PIECE_ROOK) |->
            IF own[SQ_TO_COL(sq)] = {} /\ enemy[SQ_TO_COL(sq)] = {}
            THEN <<ROOK_OPEN_MG, ROOK_OPEN_EG>>
            ELSE IF own[SQ_TO_COL(sq)] = {} /\ enemy[SQ_TO_COL(sq)] # {}
            THEN <<ROOK_SEMIOPEN_MG, ROOK_SEMIOPEN_EG>>
            ELSE <<0, 0>>])

KnightMob(b, atk, sq, side) ==
    Cardinality({j \in 1..8 :
        LET dest == Step(sq, knight_offsets[j])
        IN /\ SQ_VALID(dest)
           /\ ~(b.squares[dest] # PIECE_NONE /\ OwnPiece(b.squares[dest], side))
           /\ dest \notin atk})

\* the squares counted along one diagonal, dest being the next square looked at
RECURSIVE BishopRay(_, _, _, _, _, _)
BishopRay(b, atk, oob, dest, off, side) ==
    IF SquaresAt(b, dest) = PIECE_NONE
    THEN (IF PawnAtkBit(atk, oob, dest) THEN 0 ELSE 1)
         + BishopRay(b, atk, oob, Step(dest, off), off, side)
    ELSE IF SQ_VALID(dest) /\ ~OwnPiece(SquaresAt(b, dest), side)
                           /\ ~PawnAtkBit(atk, oob, dest)
    THEN 1 ELSE 0

BishopMob(b, atk, oob, sq, side) ==
    BishopRay(b, atk, oob, Step(sq, bishop_offsets[1]), bishop_offsets[1], side)
    + BishopRay(b, atk, oob, Step(sq, bishop_offsets[2]), bishop_offsets[2], side)
    + BishopRay(b, atk, oob, Step(sq, bishop_offsets[3]), bishop_offsets[3], side)
    + BishopRay(b, atk, oob, Step(sq, bishop_offsets[4]), bishop_offsets[4], side)

Min(x, y) == IF x < y THEN x ELSE y

\* knight and bishop mobility of `side`; atk are the squares the enemy pawns
\* attack
Mobility(b, atk, oob, side) ==
    Add2(Sum2([sq \in PiecesOf(b, side, PIECE_KNIGHT) |->
                 <<knight_mob_mg[Min(KnightMob(b, atk, sq, side), 8) + 1],
                   knight_mob_eg[Min(KnightMob(b, atk, sq, side), 8) + 1]>>]),
         Sum2([sq \in PiecesOf(b, side, PIECE_BISHOP) |->
                 <<bishop_mob_mg[Min(BishopMob(b, atk, oob, sq, side), 13) + 1],
                   bishop_mob_eg[Min(BishopMob(b, atk, oob, sq, side), 13) + 1]>>]))

\* own pawns on the three squares in front of the king of `side`
Shield(b, side) ==
    LET krow == SQ_TO_ROW(b.king_sq[side])
        kcol == SQ_TO_COL(b.king_sq[side])
        front == IF side = WHITE THEN krow - 1 ELSE krow + 1
        pawn == MAKE_PIECE(IF side = WHITE THEN COLOR_WHITE ELSE COLOR_BLACK, PIECE_PAWN)
    IN IF (side = WHITE /\ krow > 0) \/ (side = BLACK /\ krow < 7)
       THEN Cardinality({c \in (kcol - 1)..(kcol + 1) :
                            c >= 0 /\ c <= 7 /\ b.squares[RC_TO_SQ(front, c)] = pawn})
       ELSE 0

\* mg and eg from white's point of view, given the pawn data e
EvalTerms(b, e, oob) ==
    Add2(Add2(Add2(<<b.mg[WHITE] - b.mg[BLACK], b.eg[WHITE] - b.eg[BLACK]>>,
                   <<(IF b.bishop_count[WHITE] >= 2 THEN BISHOP_PAIR_MG ELSE 0)
                     - (IF b.bishop_count[BLACK] >= 2 THEN BISHOP_PAIR_MG ELSE 0)
                     + (IF b.side = WHITE THEN TEMPO_MG ELSE -TEMPO_MG),
                     (IF b.bishop_count[WHITE] >= 2 THEN BISHOP_PAIR_EG ELSE 0)
                     - (IF b.bishop_count[BLACK] >= 2 THEN BISHOP_PAIR_EG ELSE 0)
                     + (IF b.side = WHITE THEN TEMPO_EG ELSE -TEMPO_EG)>>),
              Add2(<<e.pawn_mg, e.pawn_eg>>,
                   Sub2(RookFiles(b, e.w_pawns, e.b_pawns, WHITE),
                        RookFiles(b, e.b_pawns, e.w_pawns, BLACK)))),
         Add2(Sub2(Mobility(b, e.atk_b, oob, WHITE), Mobility(b, e.atk_w, oob, BLACK)),
              <<(Shield(b, WHITE) - Shield(b, BLACK)) * SHIELD_MG,
                (Shield(b, WHITE) - Shield(b, BLACK)) * SHIELD_EG>>))

Tapered(t, phase) == TruncDiv(t[1] * phase + t[2] * (PHASE_MAX - phase), PHASE_MAX)

EvalScore(b, t) ==
    IF b.side = WHITE THEN Tapered(t, Min(b.phase, PHASE_MAX))
    ELSE -Tapered(t, Min(b.phase, PHASE_MAX))

EvalWith(b, p, oob) ==
    [score |-> EvalScore(b, EvalTerms(b, p.cache.slots[p.slot], oob)), cache |-> p.cache]

\* evaluate(b): the score from the side to move's point of view and the pawn
\* cache after the call; w is the width of the cache keys, oob whether the
\* bytes read behind pawn_atk[] have the attacked bit set
evaluate(b, cache, oob, w) == EvalWith(b, PawnProbe(b, cache, w), oob)

\* ------------------------------------------------------------------------
\* tt.c: the transposition table, kept as the entries written since tt_clear
\* (every other slot still has flag TT_NONE)
\* ------------------------------------------------------------------------

TT_NONE == 0
TT_EXACT == 1
TT_ALPHA == 2
TT_BETA == 3
TT_MOVE_NONE == 0
TT_SIZE == 4096

SQ64_TO_SQ(s64) == (s64 \div 8) * 16 + (s64 % 8)

tt_clear == [i \in {} |-> 0]

\* hash & TT_MASK
TtIndex(hash) == ToNat(Low(hash, 12))

tt_probe(tt, hash, lock) ==
    IF TtIndex(hash) \notin DOMAIN tt THEN [hit |-> FALSE]
    ELSE IF tt[TtIndex(hash)].flag = TT_NONE THEN [hit |-> FALSE]
    ELSE IF tt[TtIndex(hash)].lock16 # lock THEN [hit |-> FALSE]
    ELSE [hit |-> TRUE, score |-> tt[TtIndex(hash)].score,
          best_move |-> tt[TtIndex(hash)].best_move,
          depth |-> tt[TtIndex(hash)].depth, flag |-> tt[TtIndex(hash)].flag]

\* tt_store for a table that keeps an entry searched deeper than the new one
tt_store_keeps_deeper(tt, hash, lock, score, best_move, depth, flag) ==
    IF TtIndex(hash) \in DOMAIN tt /\ tt[TtIndex(hash)].depth > I8(depth) THEN tt
    ELSE [i \in DOMAIN tt \cup {TtIndex(hash)} |->
             IF i = TtIndex(hash)
             THEN [lock16 |-> lock, score |-> I16(score), best_move |-> best_move,
                   depth |-> I8(depth), flag |-> flag]
             ELSE tt[i]]

\* the entry keeps the score in an int16_t and the depth in an int8_t
tt_store(tt, hash, lock, score, best_move, depth, flag) ==
    [i \in DOMAIN tt \cup {TtIndex(hash)} |->
        IF i = TtIndex(hash)
        THEN [lock16 |-> lock, score |-> I16(score), best_move |-> best_move,
              depth |-> I8(depth), flag |-> flag]
        ELSE tt[i]]

\* the packing without the promotion piece
tt_pack_move_without_piece(m) ==
    SQ_TO_SQ64(m.from) + 64 * SQ_TO_SQ64(m.to)
    + (IF HasFlag(m.flags, FLAG_PROMOTION) THEN 4096 ELSE 0)

\* the 16-bit packed move: from64, to64 << 6, promotion bit 12 and the
\* promotion piece in bits 13-14
tt_pack_move(m) ==
    SQ_TO_SQ64(m.from) + 64 * SQ_TO_SQ64(m.to)
    + (IF HasFlag(m.flags, FLAG_PROMOTION)
       THEN 4096 + 8192 * ((m.flags \div 16) % 4) ELSE 0)

tt_unpack_move(packed) ==
    [from |-> SQ64_TO_SQ(packed % 64),
     to |-> SQ64_TO_SQ((packed \div 64) % 64),
     flags |-> IF (packed \div 4096) % 2 = 1
               THEN FLAG_PROMOTION + 16 * ((packed \div 8192) % 4) ELSE 0]


\* ------------------------------------------------------------------------
\* search.c: move ordering and the legality fast path
\* ------------------------------------------------------------------------

SCORE_INF == 30000
SCORE_MATE == 29000
SCORE_DRAW == 0
MAX_PLY == 64
MAX_MOVES == 256
MOVE_POOL_SIZE == 2048
SCORE_TT_MOVE == 30000
SCORE_CAPTURE_BASE == 10000
SCORE_KILLER_1 == 9000
SCORE_KILLER_2 == 8000
MAX_ROOT_CANDIDATES == 16
QS_MAX_DEPTH == 8

\* indexed by [victim_type][attacker_type]
mvv_lva ==
    << <<15, 14, 13, 12, 11, 10>>,
       <<25, 24, 23, 22, 21, 20>>,
       <<25, 24, 23, 22, 21, 20>>,
       <<35, 34, 33, 32, 31, 30>>,
       <<45, 44, 43, 42, 41, 40>>,
       <<0, 0, 0, 0, 0, 0>> >>

MOVE_EQ(a, b) == a.from = b.from /\ a.to = b.to /\ a.flags = b.flags

\* killers[ply] and history[side][to] are kept as the entries written since
\* search_init; every other entry is MOVE_NONE or 0
KillersAt(killers, ply) ==
    IF ply \in DOMAIN killers THEN killers[ply] ELSE <<MOVE_NONE, MOVE_NONE>>

HistoryAt(history, side, to) ==
    IF <<side, to>> \in DOMAIN history THEN history[<<side, to>>] ELSE 0

\* m.flags & (FLAG_PROMOTION | FLAG_PROMO_MASK)
PromoBits(flags) == (flags \div 8) % 8

PromoBonus(m) ==
    IF HasFlag(m.flags, FLAG_PROMOTION)
    THEN (IF (m.flags \div 16) % 4 = 0 THEN 5000 ELSE 1000)
    ELSE 0

\* SCORE_CAPTURE_BASE plus the MVV-LVA term of a capture
CaptureScore(b, m) ==
    LET victim_type == IF HasFlag(m.flags, FLAG_EN_PASSANT) THEN PIECE_PAWN
                       ELSE PIECE_TYPE(b.squares[m.to])
        attacker_type == PIECE_TYPE(b.squares[m.from])
    IN IF victim_type >= PIECE_PAWN /\ victim_type <= PIECE_KING
          /\ attacker_type >= PIECE_PAWN /\ attacker_type <= PIECE_KING
       THEN SCORE_CAPTURE_BASE + mvv_lva[victim_type][attacker_type]
       ELSE SCORE_CAPTURE_BASE

ScoreMove(b, m, ply, tt_move, killers, history) ==
    IF m.from = tt_move.from /\ m.to = tt_move.to
       /\ PromoBits(m.flags) = PromoBits(tt_move.flags)
    THEN SCORE_TT_MOVE
    ELSE (IF HasFlag(m.flags, FLAG_CAPTURE) THEN CaptureScore(b, m)
          ELSE IF ply < MAX_PLY /\ MOVE_EQ(m, KillersAt(killers, ply)[1]) THEN SCORE_KILLER_1
          ELSE IF ply < MAX_PLY /\ MOVE_EQ(m, KillersAt(killers, ply)[2]) THEN SCORE_KILLER_2
          ELSE HistoryAt(history, b.side, m.to))
         + PromoBonus(m)

\* the pool entries (move and score) written for the generated moves
score_moves(b, moves, ply, tt_move, killers, history) ==
    [i \in 1..Len(moves) |->
        [m |-> moves[i], s |-> ScoreMove(b, moves[i], ply, tt_move, killers, history)]]

score_capture_moves(b, moves) ==
    [i \in 1..Len(moves) |->
        [m |-> moves[i],
         s |-> (IF HasFlag(moves[i].flags, FLAG_CAPTURE) THEN CaptureScore(b, moves[i])
                ELSE SCORE_CAPTURE_BASE) + PromoBonus(moves[i])]]

\* pick_move on the pool slice that starts at base (0-based): the first entry
\* with the highest score among index .. count - 1 is swapped to index
pick_move(pool, base, count, index) ==
    LET cand == (base + index + 1)..(base + count)
        best == CHOOSE k \in cand :
                    /\ \A j \in cand : pool[j].s <= pool[k].s
                    /\ \A j \in cand : pool[j].s = pool[k].s => k <= j
    IN [pool EXCEPT ![base + index + 1] = pool[best], ![best] = pool[base + index + 1]]

update_killers(killers, ply, m) ==
    IF ply >= MAX_PLY THEN killers
    ELSE IF MOVE_EQ(m, KillersAt(killers, ply)[1]) THEN killers
    ELSE [p \in DOMAIN killers \cup {ply} |->
            IF p = ply THEN <<m, KillersAt(killers, ply)[1]>> ELSE killers[p]]

HistoryValue(val, bonus) ==
    LET v == val + bonus - TruncDiv(val * bonus, 16384)
    IN IF v > 4000 THEN 4000 ELSE IF v < -4000 THEN -4000 ELSE v

update_history(history, side, m, depth) ==
    [k \in DOMAIN history \cup {<<side, m.to>>} |->
        IF k = <<side, m.to>>
        THEN HistoryValue(HistoryAt(history, side, m.to), depth * depth)
        ELSE history[k]]

\* the first non-empty cell from target along dir; the off-board sentinels
\* (and the bytes behind squares[]) stop the walk
RECURSIVE WalkEmpty(_, _, _)
WalkEmpty(b, target, dir) ==
    IF SquaresAt(b, target) = PIECE_NONE THEN WalkEmpty(b, Step(target, dir), dir)
    ELSE target

IsSlider(p, dir) ==
    IF dir \in {-16, -1, 1, 16}
    THEN PIECE_TYPE(p) = PIECE_ROOK \/ PIECE_TYPE(p) = PIECE_QUEEN
    ELSE PIECE_TYPE(p) = PIECE_BISHOP \/ PIECE_TYPE(p) = PIECE_QUEEN

\* one direction of the slider loop of compute_legal_info: first the first
\* piece met from the king, second the piece behind it when first is friendly
RayResult(b, dir, attacker_color, first, second) ==
    IF ~SQ_VALID(first) THEN [checker |-> SQ_NONE, pinned |-> SQ_NONE]
    ELSE IF PIECE_COLOR(b.squares[first]) = attacker_color
    THEN [checker |-> IF IsSlider(b.squares[first], dir) THEN first ELSE SQ_NONE,
          pinned |-> SQ_NONE]
    ELSE IF ~SQ_VALID(second) THEN [checker |-> SQ_NONE, pinned |-> SQ_NONE]
    ELSE [checker |-> SQ_NONE,
          pinned |-> IF PIECE_COLOR(b.squares[second]) = attacker_color
                        /\ IsSlider(b.squares[second], dir)
                     THEN first ELSE SQ_NONE]

RayFirst(b, dir, attacker_color, first) ==
    RayResult(b, dir, attacker_color, first, WalkEmpty(b, Step(first, dir), dir))

RayInfo(b, king_sq, dir, attacker_color) ==
    RayFirst(b, dir, attacker_color, WalkEmpty(b, Step(king_sq, dir), dir))

\* the elements of s for which Keep holds, in order
RECURSIVE SelectFrom(_, _, _)
SelectFrom(s, Keep(_), i) ==
    IF i > Len(s) THEN << >>
    ELSE (IF Keep(s[i]) THEN <<s[i]>> ELSE << >>) \o SelectFrom(s, Keep, i + 1)

\* the checkers in the order the function finds them, and the pinned squares
LegalInfo(checkers, pinned) ==
    [in_check |-> Len(checkers) > 0,
     num_checkers |-> Len(checkers),
     checker_sq |-> SubSeq(checkers, 1, Min(Len(checkers), 2)),
     pinned_sq |-> SubSeq(pinned, 1, Min(Len(pinned), 8))]

compute_legal_info(b) ==
    LET king_sq == b.king_sq[b.side]
        attacker_color == IF 1 - b.side = WHITE THEN COLOR_WHITE ELSE COLOR_BLACK
        pawn_dir == IF 1 - b.side = WHITE THEN 16 ELSE -16
        At(t, piece) == SQ_VALID(t) /\ b.squares[t] = piece
        knights == [i \in 1..8 |-> Step(king_sq, knight_offsets[i])]
        pawns == <<Step(king_sq, pawn_dir - 1), Step(king_sq, pawn_dir + 1)>>
        kings == [i \in 1..8 |-> Step(king_sq, king_offsets[i])]
        rays == [i \in 1..8 |-> RayInfo(b, king_sq, king_offsets[i], attacker_color)]
        IsKnight(t) == At(t, MAKE_PIECE(attacker_color, PIECE_KNIGHT))
        IsPawn(t) == At(t, MAKE_PIECE(attacker_color, PIECE_PAWN))
        IsKing(t) == At(t, MAKE_PIECE(attacker_color, PIECE_KING))
        IsSq(t) == t # SQ_NONE
    IN LegalInfo(SelectFrom(knights, IsKnight, 1) \o SelectFrom(pawns, IsPawn, 1)
                 \o SelectFrom(kings, IsKing, 1)
                 \o SelectFrom([i \in 1..8 |-> rays[i].checker], IsSq, 1),
                 SelectFrom([i \in 1..8 |-> rays[i].pinned], IsSq, 1))

is_sq_pinned(li, sq) == \E i \in 1..Len(li.pinned_sq) : li.pinned_sq[i] = sq

\* the test is asked for without looking at the pinned squares
move_needs_legality_check_ignores_pins(b, li, m) ==
    \/ li.in_check
    \/ HasFlag(m.flags, FLAG_EN_PASSANT)
    \/ PIECE_TYPE(b.squares[m.from]) = PIECE_KING

move_needs_legality_check(b, li, m) ==
    \/ li.in_check
    \/ HasFlag(m.flags, FLAG_EN_PASSANT)
    \/ PIECE_TYPE(b.squares[m.from]) = PIECE_KING
    \/ is_sq_pinned(li, m.from)

\* whether `to` lies on the ray from `from` in direction dir
RECURSIVE OnRay(_, _, _)
OnRay(sq, to, dir) ==
    IF ~SQ_VALID(sq) THEN FALSE
    ELSE IF sq = to THEN TRUE
    ELSE OnRay(Step(sq, dir), to, dir)

ray_dir_between(from, to) ==
    LET hits == {i \in 1..8 : OnRay(Step(from, king_offsets[i]), to, king_offsets[i])}
    IN IF hits = {} THEN 0
       ELSE king_offsets[CHOOSE i \in hits : \A j \in hits : i <= j]

\* the squares strictly between the king and the checker along dir
RECURSIVE Between(_, _, _)
Between(sq, checker_sq, dir) ==
    IF sq = checker_sq THEN {} ELSE {sq} \cup Between(Step(sq, dir), checker_sq, dir)

is_evasion_candidate(b, li, m) ==
    IF ~li.in_check THEN TRUE
    ELSE IF PIECE_TYPE(b.squares[m.from]) = PIECE_KING THEN TRUE
    ELSE IF li.num_checkers >= 2 THEN FALSE
    ELSE IF m.to = li.checker_sq[1] THEN TRUE
    ELSE IF HasFlag(m.flags, FLAG_EN_PASSANT)
            /\ (IF b.side = WHITE THEN Step(m.to, 16) ELSE Step(m.to, -16)) = li.checker_sq[1]
    THEN TRUE
    ELSE IF PIECE_TYPE(b.squares[li.checker_sq[1]]) \notin {PIECE_BISHOP, PIECE_ROOK, PIECE_QUEEN}
    THEN FALSE
    ELSE IF ray_dir_between(b.king_sq[b.side], li.checker_sq[1]) = 0 THEN FALSE
    ELSE m.to \in Between(Step(b.king_sq[b.side],
                               ray_dir_between(b.king_sq[b.side], li.checker_sq[1])),
                          li.checker_sq[1],
                          ray_dir_between(b.king_sq[b.side], li.checker_sq[1]))


\* ------------------------------------------------------------------------
\* search.c: the position history, a record of the hashes pushed (as zhash_t,
\* w bits wide) and the index of the last irreversible move
\* ------------------------------------------------------------------------

MAX_GAME_PLY == 256

search_history_clear == [hashes |-> << >>, irreversible |-> 0]

search_history_push(h, hash, w) ==
    IF Len(h.hashes) < MAX_GAME_PLY
    THEN [h EXCEPT !.hashes = Append(@, Low(hash, w))]
    ELSE h

search_history_pop(h) ==
    IF Len(h.hashes) > 0
    THEN [h EXCEPT !.hashes = SubSeq(@, 1, Len(@) - 1)]
    ELSE h

search_history_set_irreversible(h) == [h EXCEPT !.irreversible = Len(h.hashes)]

\* pos_history[i] for i = count - 3, count - 5, ... down to the irreversible
\* mark (0-based indices; the sequence is 1-based)
is_repetition(h, hash, w) ==
    /\ Len(h.hashes) >= 3
    /\ \E i \in h.irreversible..(Len(h.hashes) - 3) :
          /\ (Len(h.hashes) - 3 - i) % 2 = 0
          /\ h.hashes[i + 1] = Low(hash, w)

\* ------------------------------------------------------------------------
\* search.c: negamax and quiescence, one step at a time.  The call stack is
\* kept as a sequence of frames; a frame holds the parameters and locals of
\* one call and the place (pc) it will continue from.  A machine state M is
\* the board b, the position history h, the statics of search.c with the
\* call stack s, the transposition table t and the pawn cache c.
\* ------------------------------------------------------------------------

NoInfo == [in_check |-> FALSE, num_checkers |-> 0, checker_sq |-> << >>, pinned_sq |-> << >>]

NoUndo ==
    [captured |-> PIECE_NONE, castling |-> 0, ep_square |-> SQ_NONE, halfmove |-> 0,
     fullmove |-> 0, pawn_hash |-> {}, hash |-> {}, lock |-> {},
     moved_piece |-> PIECE_NONE, flags |-> 0]

NoNull == [old_ep |-> SQ_NONE, old_hash |-> {}, old_lock |-> {}]

\* the frame of a call that has not run yet
Frame(kind, depth, alpha, beta, ply, do_null, ext, qs_depth) ==
    [kind |-> kind, pc |-> "enter", depth |-> depth, alpha |-> alpha, beta |-> beta,
     ply |-> ply, do_null |-> do_null, ext |-> ext, qs_depth |-> qs_depth,
     linfo |-> NoInfo, tt_move |-> MOVE_NONE, can_futility |-> FALSE,
     best_score |-> 0, best_flag |-> TT_NONE, best_move |-> MOVE_NONE,
     legal_moves |-> 0, cutoff |-> FALSE, stage |-> 0, base |-> 0, count |-> 0,
     i |-> 0, m |-> MOVE_NONE, undo |-> NoUndo, call |-> "none", null |-> NoNull]

NegamaxFrame(depth, alpha, beta, ply, do_null, ext) ==
    Frame("negamax", I8(depth), alpha, beta, ply, do_null, ext, 0)

QuiescenceFrame(alpha, beta, ply, qs_depth) ==
    Frame("quiescence", 0, alpha, beta, ply, FALSE, 0, qs_depth)

TopFrame(s) == s.frames[Len(s.frames)]

WithTop(M, f) == [M EXCEPT !.s.frames[Len(M.s.frames)] = f]

\* the running call continues in f after the call of child returns
Call(M, f, child) ==
    [M EXCEPT !.s.frames = Append([@ EXCEPT ![Len(@)] = f], child)]

\* the running call returns v to its caller: negamax, quiescence, or search_go
\* when the frame is the root's
Return(M, v) ==
    [M EXCEPT !.s.frames = SubSeq(@, 1, Len(@) - 1),
              !.s.ret = v,
              !.s.pc = IF Len(M.s.frames) = 1 THEN "root_ret" ELSE @]

\* move_sp = base: the entries above base are dead
ResetPool(M, base) ==
    [M EXCEPT !.s.move_sp = base, !.s.pool = SubSeq(@, 1, base)]

\* whether check_time, called with the node count n, polls the time callback
PollsTime(s, n) == s.search_time_fn /\ s.search_deadline # 0 /\ n % 256 = 0

\* check_time with the node limits sampled like the clock
Stops_samples_node_limits(s, n, t) ==
    \/ (PollsTime(s, n) /\ t >= s.search_deadline)
    \/ (n % 256 = 0 /\ s.search_max_nodes # 0 /\ n >= s.search_max_nodes)
    \/ (n % 256 = 0 /\ s.search_node_deadline # 0 /\ n >= s.search_node_deadline)

\* check_time() sets the stop flag at node number n; t is what the time
\* callback returns when it is polled
Stops(s, n, t) ==
    \/ (PollsTime(s, n) /\ t >= s.search_deadline)
    \/ (s.search_max_nodes # 0 /\ n >= s.search_max_nodes)
    \/ (s.search_node_deadline # 0 /\ n >= s.search_node_deadline)

\* where the stop flag was set: the kind of the call and whether one of its
\* callers is waiting for a null-move search
StoppedIn(s) ==
    [kind |-> TopFrame(s).kind,
     null |-> \E i \in 1..Len(s.frames) : s.frames[i].pc = "null_ret"]

\* search_nodes++ and check_time()
check_time(s, t) ==
    [s EXCEPT
        !.search_nodes = @ + 1,
        !.now = IF PollsTime(s, s.search_nodes + 1) THEN t ELSE @,
        !.search_stopped = @ \/ Stops(s, s.search_nodes + 1, t),
        !.stopped_in = IF ~s.search_stopped /\ Stops(s, s.search_nodes + 1, t)
                       THEN StoppedIn(s) ELSE @]

\* ---- negamax ----

\* the locals set before the staged move loop
StartMoves(M, f) ==
    WithTop(M, [f EXCEPT !.best_score = -SCORE_INF, !.best_flag = TT_ALPHA,
                         !.best_move = MOVE_NONE, !.legal_moves = 0,
                         !.cutoff = FALSE, !.stage = 0, !.pc = "gen"])

HasPieces(b) ==
    \E i \in 0..(b.piece_count[b.side] - 1) :
        PIECE_TYPE(b.squares[b.piece_list[b.side][i]]) \notin {PIECE_PAWN, PIECE_KING}

\* the null move that leaves the en passant square standing
NullBoard_keeps_ep(b) ==
    [b EXCEPT
        !.side = 1 - @,
        !.hash = Xor(@, zobrist_side),
        !.lock = Xor(@, lock_side)]

\* the board after the null move: side flipped, en passant square cleared
NullBoard(b) ==
    [b EXCEPT
        !.side = 1 - @,
        !.hash = IF b.ep_square # SQ_NONE
                 THEN Xor(Xor(@, zobrist_side), zobrist_ep_file(SQ_TO_COL(b.ep_square)))
                 ELSE Xor(@, zobrist_side),
        !.lock = IF b.ep_square # SQ_NONE
                 THEN Xor(Xor(@, lock_side), lock_ep_file(SQ_TO_COL(b.ep_square)))
                 ELSE Xor(@, lock_side),
        !.ep_square = SQ_NONE]

\* null move made and searched at depth - 1 - 2 with a zero window around
\* beta; old_hash is a zhash_t, w bits wide
NullMove(M, f, w) ==
    Call([M EXCEPT !.b = NullBoard(M.b),
                   !.h = search_history_push(M.h, NullBoard(M.b).hash, w)],
         [f EXCEPT !.pc = "null_ret",
                   !.null = [old_ep |-> M.b.ep_square, old_hash |-> Low(M.b.hash, w),
                             old_lock |-> M.b.lock]],
         NegamaxFrame(f.depth - 1 - 2, -f.beta, -f.beta + 1, f.ply + 1, FALSE, f.ext))

\* the null-move search has returned
NullReturnTo(M, f) ==
    IF M.s.search_stopped THEN Return(M, 0)
    ELSE IF -M.s.ret >= f.beta THEN Return(M, f.beta)
    ELSE StartMoves(M, f)

\* NullReturn for a build that returns from a stopped null-move search
\* without taking the null move back
NullReturn_stopped_keeps_null_move(M, f) ==
    IF M.s.search_stopped
    THEN Return([M EXCEPT !.h = search_history_pop(M.h)], 0)
    ELSE NullReturnTo([M EXCEPT !.h = search_history_pop(M.h),
                                !.b = [M.b EXCEPT !.side = 1 - @, !.hash = f.null.old_hash,
                                                  !.lock = f.null.old_lock,
                                                  !.ep_square = f.null.old_ep]],
                      f)

NullReturn(M, f) ==
    NullReturnTo([M EXCEPT !.h = search_history_pop(M.h),
                           !.b = [M.b EXCEPT !.side = 1 - @, !.hash = f.null.old_hash,
                                             !.lock = f.null.old_lock,
                                             !.ep_square = f.null.old_ep]],
                 f)

\* the null-move test
NegamaxPrune(M, f, w) ==
    IF f.do_null /\ ~f.linfo.in_check /\ f.depth >= 3 /\ f.ply > 0 /\ HasPieces(M.b)
    THEN NullMove(M, f, w)
    ELSE StartMoves(M, f)

\* futility setup; ev is evaluate(b)
NegamaxFutility(M, f, ev, w) ==
    IF ~f.linfo.in_check /\ f.depth <= 2 /\ f.ply > 0
    THEN NegamaxPrune([M EXCEPT !.c = ev.cache],
                      [f EXCEPT !.can_futility =
                          ev.score + (IF f.depth = 1 THEN 200 ELSE 500) <= f.alpha],
                      w)
    ELSE NegamaxPrune(M, f, w)

\* check and pin information li, check extension
NegamaxInfo(M, f, ev, li, w) ==
    NegamaxFutility(M,
        [f EXCEPT !.linfo = li,
                  !.depth = IF li.in_check /\ f.ext < 2 THEN I8(@ + 1) ELSE @,
                  !.ext = IF li.in_check /\ f.ext < 2 THEN @ + 1 ELSE @],
        ev, w)

\* tt_score adjusted for the ply when it is a mate score
TtScore(score, ply) ==
    IF score > SCORE_MATE - MAX_PLY THEN score - ply
    ELSE IF score < -SCORE_MATE + MAX_PLY THEN score + ply
    ELSE score

\* the probe p hit or missed
NegamaxProbe(M, f, ev, li, w, p) ==
    IF p.hit /\ p.depth >= f.depth /\ p.flag = TT_EXACT
    THEN Return(M, TtScore(p.score, f.ply))
    ELSE IF p.hit /\ p.depth >= f.depth /\ p.flag = TT_BETA
            /\ TtScore(p.score, f.ply) >= f.beta
    THEN Return(M, f.beta)
    ELSE IF p.hit /\ p.depth >= f.depth /\ p.flag = TT_ALPHA
            /\ TtScore(p.score, f.ply) <= f.alpha
    THEN Return(M, f.alpha)
    ELSE NegamaxInfo(M,
            [f EXCEPT !.tt_move = IF p.hit /\ p.best_move # TT_MOVE_NONE
                                  THEN tt_unpack_move(p.best_move) ELSE MOVE_NONE],
            ev, li, w)

\* negamax after the node has been counted
NegamaxBody(M, f, ev, li, w) ==
    IF f.ply > 0 /\ (is_repetition(M.h, M.b.hash, w) \/ M.b.halfmove >= 100)
    THEN Return(M, SCORE_DRAW)
    ELSE IF f.depth <= 0
    THEN WithTop(M, QuiescenceFrame(f.alpha, f.beta, f.ply, 0))
    ELSE IF f.ply >= MAX_PLY
    THEN Return([M EXCEPT !.c = ev.cache], ev.score)
    ELSE NegamaxProbe(M, f, ev, li, w, tt_probe(M.t, M.b.hash, M.b.lock))

\* ---- quiescence ----

StandPat(M, f, stand_pat) ==
    IF stand_pat >= f.beta THEN Return(M, f.beta)
    ELSE IF stand_pat + 1100 < (IF stand_pat > f.alpha THEN stand_pat ELSE f.alpha)
    THEN Return(M, IF stand_pat > f.alpha THEN stand_pat ELSE f.alpha)
    ELSE WithTop(M, [f EXCEPT !.alpha = IF stand_pat > f.alpha THEN stand_pat ELSE @,
                              !.pc = "gen"])

QuiescenceBody(M, f, ev, li) ==
    IF f.ply >= MAX_PLY \/ f.qs_depth >= QS_MAX_DEPTH
    THEN Return([M EXCEPT !.c = ev.cache], ev.score)
    ELSE IF li.in_check
    THEN WithTop(M, [f EXCEPT !.linfo = li, !.legal_moves = 0, !.pc = "gen"])
    ELSE StandPat([M EXCEPT !.c = ev.cache], [f EXCEPT !.linfo = li], ev.score)

\* ---- the head of both functions ----

Counted(M, f, ev, li, w) ==
    IF M.s.search_stopped THEN Return(M, 0)
    ELSE IF f.kind = "negamax" THEN NegamaxBody(M, f, ev, li, w)
    ELSE QuiescenceBody(M, f, ev, li)

\* a call starts: stop test, node count, check_time, then the body
Enter(M, ev, li, t, w) ==
    IF M.s.search_stopped THEN Return(M, 0)
    ELSE Counted([M EXCEPT !.s = check_time(M.s, t)], TopFrame(M.s), ev, li, w)


\* ---- the move loops ----

\* the generation mode of the running call's next stage
GenMode(s) ==
    IF s.frames = << >> THEN GEN_ALL
    ELSE IF TopFrame(s).kind = "negamax"
    THEN (IF TopFrame(s).stage = 0 THEN GEN_CAPTURES ELSE GEN_QUIETS)
    ELSE (IF TopFrame(s).linfo.in_check THEN GEN_ALL ELSE GEN_CAPTURES)

\* the move of the table entry is put in front of the generated moves
Generated_tries_tt_move_first(M, f, entries) ==
    WithTop([M EXCEPT !.s.pool = @ \o (IF f.tt_move # MOVE_NONE /\ f.stage = 0
                                       THEN <<[m |-> f.tt_move, s |-> SCORE_TT_MOVE]>>
                                       ELSE << >>) \o entries,
                      !.s.move_sp = @ + Len(entries)
                                      + (IF f.tt_move # MOVE_NONE /\ f.stage = 0 THEN 1 ELSE 0)],
            [f EXCEPT !.base = M.s.move_sp,
                      !.count = Len(entries)
                                  + (IF f.tt_move # MOVE_NONE /\ f.stage = 0 THEN 1 ELSE 0),
                      !.i = 0, !.pc = "loop"])

\* the scored moves are written to the pool at move_sp
Generated(M, f, entries) ==
    WithTop([M EXCEPT !.s.pool = @ \o entries, !.s.move_sp = @ + Len(entries)],
            [f EXCEPT !.base = M.s.move_sp, !.count = Len(entries), !.i = 0,
                      !.pc = "loop"])

\* the score stored as it was found
StoreScore_as_found(score, ply) == score

\* best_score adjusted for the ply when it is a mate score
StoreScore(score, ply) ==
    IF score > SCORE_MATE - MAX_PLY THEN score + ply
    ELSE IF score < -SCORE_MATE + MAX_PLY THEN score - ply
    ELSE score

\* negamax behind the staged loop: mate, stalemate, or TT store
NegamaxFinish(M, f) ==
    IF f.legal_moves = 0
    THEN Return(M, IF f.linfo.in_check THEN -SCORE_MATE + f.ply ELSE SCORE_DRAW)
    ELSE Return([M EXCEPT !.t = tt_store(M.t, M.b.hash, M.b.lock,
                                         StoreScore(f.best_score, f.ply),
                                         tt_pack_move(f.best_move), f.depth, f.best_flag)],
                f.best_score)

\* the head of a stage of negamax; moves are the generated moves, ev is
\* evaluate(b)
NegamaxGenerate(M, f, moves, ev) ==
    IF f.stage >= 2 \/ f.cutoff THEN NegamaxFinish(M, f)
    ELSE IF M.s.move_sp + MAX_MOVES > MOVE_POOL_SIZE
    THEN Return([M EXCEPT !.c = ev.cache], ev.score)
    ELSE Generated(M, f, score_moves(M.b, moves, f.ply, f.tt_move,
                                     M.s.killers, M.s.history))

QuiescenceGenerate(M, f, moves, ev) ==
    IF M.s.move_sp + MAX_MOVES > MOVE_POOL_SIZE
    THEN (IF f.linfo.in_check THEN Return([M EXCEPT !.c = ev.cache], ev.score)
          ELSE Return(M, f.alpha))
    ELSE Generated(M, f, IF f.linfo.in_check
                         THEN score_moves(M.b, moves, f.ply, MOVE_NONE,
                                          M.s.killers, M.s.history)
                         ELSE score_capture_moves(M.b, moves))

Generate(M, moves, ev) ==
    IF TopFrame(M.s).kind = "negamax" THEN NegamaxGenerate(M, TopFrame(M.s), moves, ev)
    ELSE QuiescenceGenerate(M, TopFrame(M.s), moves, ev)

\* the pool after pick_move(moves, scores, count, i) of the running call
Picked(s) ==
    pick_move(s.pool, TopFrame(s).base, TopFrame(s).count, TopFrame(s).i)

\* moves[i] after pick_move
PickedMove(s) ==
    IF s.frames = << >> THEN MOVE_NONE
    ELSE IF TopFrame(s).pc # "loop" \/ TopFrame(s).i >= TopFrame(s).count THEN MOVE_NONE
    ELSE Picked(s)[TopFrame(s).base + TopFrame(s).i + 1].m

IsQuiet(m) == ~HasFlag(m.flags, FLAG_CAPTURE) /\ ~HasFlag(m.flags, FLAG_PROMOTION)

\* `continue`: the loop goes on with the next move on board b
Skip(M, f, b) ==
    WithTop([M EXCEPT !.b = b, !.s.pool = Picked(M.s)], [f EXCEPT !.i = @ + 1])

\* the child searched first for the move: full window for the first legal
\* move, reduced zero window for a late quiet move, zero window otherwise
FirstChild(M, f, m) ==
    LET pvs_floor == IF f.ply = 0 /\ M.s.search_move_variance # 0
                     THEN f.alpha - M.s.search_move_variance ELSE f.alpha
    IN IF f.legal_moves = 1
       THEN NegamaxFrame(f.depth - 1, -f.beta, -f.alpha, f.ply + 1, TRUE, f.ext)
       ELSE IF ~f.linfo.in_check /\ f.legal_moves > 4 /\ f.depth >= 3 /\ IsQuiet(m)
       THEN NegamaxFrame(I8(f.depth - 1) - 1, -f.alpha - 1, -pvs_floor, f.ply + 1, TRUE, f.ext)
       ELSE NegamaxFrame(f.depth - 1, -f.alpha - 1, -pvs_floor, f.ply + 1, TRUE, f.ext)

CallKind(f, m) ==
    IF f.legal_moves = 1 THEN "first"
    ELSE IF ~f.linfo.in_check /\ f.legal_moves > 4 /\ f.depth >= 3 /\ IsQuiet(m) THEN "lmr"
    ELSE "pvs"

\* negamax: the move is legal and made (tr.made); f already counts it
NegamaxDescend(M, f, m, tr, w) ==
    Call([M EXCEPT !.b = tr.made.b,
                   !.h = search_history_push(M.h, tr.made.b.hash, w),
                   !.s.pool = Picked(M.s),
                   !.s.search_best_root_move =
                       IF f.ply = 0 /\ @.from = SQ_NONE THEN m ELSE @,
                   !.s.first_root_move =
                       IF f.ply = 0 /\ f.legal_moves = 1 THEN m ELSE @],
         [f EXCEPT !.m = m, !.undo = tr.made.u, !.call = CallKind(f, m), !.pc = "ret"],
         FirstChild(M, f, m))

\* the move loop with futility skipping also before a legal move was searched
NegamaxMove_futility_skips_first(M, f, m, tr, w) ==
    IF f.i >= f.count
    THEN WithTop(ResetPool(M, f.base), [f EXCEPT !.stage = @ + 1, !.pc = "gen"])
    ELSE IF ~is_evasion_candidate(M.b, f.linfo, m) THEN Skip(M, f, M.b)
    ELSE IF f.can_futility /\ IsQuiet(m) THEN Skip(M, f, M.b)
    ELSE IF move_needs_legality_check(M.b, f.linfo, m) /\ ~tr.legal THEN Skip(M, f, tr.b)
    ELSE NegamaxDescend(M, [f EXCEPT !.legal_moves = U8(@ + 1)], m, tr, w)

\* one pass of the move loop of negamax; tr is the picked move tried on the
\* board (made, tested for legality, unmade)
NegamaxMove(M, f, m, tr, w) ==
    IF f.i >= f.count
    THEN WithTop(ResetPool(M, f.base), [f EXCEPT !.stage = @ + 1, !.pc = "gen"])
    ELSE IF ~is_evasion_candidate(M.b, f.linfo, m) THEN Skip(M, f, M.b)
    ELSE IF f.can_futility /\ f.legal_moves > 0 /\ IsQuiet(m) THEN Skip(M, f, M.b)
    ELSE IF move_needs_legality_check(M.b, f.linfo, m) /\ ~tr.legal THEN Skip(M, f, tr.b)
    ELSE NegamaxDescend(M, [f EXCEPT !.legal_moves = U8(@ + 1)], m, tr, w)

QuiescenceDescend(M, f, m, tr) ==
    Call([M EXCEPT !.b = tr.made.b, !.s.pool = Picked(M.s)],
         [f EXCEPT !.m = m, !.undo = tr.made.u, !.pc = "ret"],
         QuiescenceFrame(-f.beta, -f.alpha, f.ply + 1, f.qs_depth + 1))

\* one pass of a move loop of quiescence: evasions when in check, captures
\* otherwise
QuiescenceMove(M, f, m, tr) ==
    IF f.i >= f.count
    THEN Return(ResetPool(M, f.base),
                IF f.linfo.in_check /\ f.legal_moves = 0 THEN -SCORE_MATE + f.ply
                ELSE f.alpha)
    ELSE IF f.linfo.in_check /\ ~is_evasion_candidate(M.b, f.linfo, m) THEN Skip(M, f, M.b)
    ELSE IF (f.linfo.in_check \/ move_needs_legality_check(M.b, f.linfo, m)) /\ ~tr.legal
    THEN Skip(M, f, tr.b)
    ELSE QuiescenceDescend(M, [f EXCEPT !.legal_moves = IF f.linfo.in_check THEN 1 ELSE @],
                           m, tr)

Move(M, m, tr, w) ==
    IF TopFrame(M.s).kind = "negamax" THEN NegamaxMove(M, TopFrame(M.s), m, tr, w)
    ELSE QuiescenceMove(M, TopFrame(M.s), m, tr)


\* ---- a child call has returned ----

\* x ^= x << 13; x ^= x >> 17; x ^= x << 5 on a uint32_t
XorShift(x) ==
    LET a == Xor(x, Shl(x, 13))
        b == Xor(a, Shr(a, 17))
    IN Xor(b, Shl(b, 5))

RECURSIVE PowMod(_, _)
PowMod(i, n) == IF i = 0 THEN 1 % n ELSE (2 * PowMod(i - 1, n)) % n

RECURSIVE SumPowMod(_, _)
SumPowMod(x, n) ==
    IF x = {} THEN 0
    ELSE LET i == CHOOSE j \in x : TRUE IN PowMod(i, n) + SumPowMod(x \ {i}, n)

\* x % n for a 32-bit word x and 0 < n < 2^16
ModBits(x, n) == SumPowMod(x, n) % n

\* search_rand_noise() for the generator state x after the step
RandNoise(x, noise) == IF noise = 0 THEN 0 ELSE ModBits(x, 2 * noise + 1) - noise

\* full depth, full window search of the move after the zero-window search
\* beat alpha
Research(M, f) ==
    Call(M, [f EXCEPT !.call = "re"],
         NegamaxFrame(f.depth - 1, -f.beta, -f.alpha, f.ply + 1, TRUE, f.ext))

\* the move raised alpha to beta or above: killers and history for a quiet
\* move, then out of the loop
BetaCutoff(M, f, score) ==
    WithTop(ResetPool([M EXCEPT
                !.s.killers = IF HasFlag(f.m.flags, FLAG_CAPTURE) THEN @
                              ELSE update_killers(@, f.ply, f.m),
                !.s.history = IF HasFlag(f.m.flags, FLAG_CAPTURE) THEN @
                              ELSE update_history(@, M.b.side, f.m, f.depth)],
                      f.base),
            [f EXCEPT !.alpha = score, !.best_flag = TT_BETA, !.cutoff = TRUE,
                      !.pc = "gen"])

\* negamax: best move bookkeeping for the score of move f.m
Scored(M, f, score) ==
    IF score > f.best_score
    THEN (IF score > f.alpha /\ score >= f.beta
          THEN BetaCutoff([M EXCEPT !.s.search_best_root_move =
                                        IF f.ply = 0 THEN f.m ELSE @],
                          [f EXCEPT !.best_score = score, !.best_move = f.m], score)
          ELSE WithTop([M EXCEPT !.s.search_best_root_move =
                                     IF f.ply = 0 THEN f.m ELSE @],
                       [f EXCEPT !.best_score = score, !.best_move = f.m,
                                 !.alpha = IF score > f.alpha THEN score ELSE @,
                                 !.best_flag = IF score > f.alpha THEN TT_EXACT ELSE @,
                                 !.i = @ + 1, !.pc = "loop"]))
    ELSE WithTop(M, [f EXCEPT !.i = @ + 1, !.pc = "loop"])

\* root candidates for move variance
Candidate(M, f, score, got_accurate) ==
    Scored([M EXCEPT !.s.root_pending =
                IF f.ply = 0 /\ M.s.search_move_variance # 0
                   /\ Len(@) < MAX_ROOT_CANDIDATES /\ got_accurate
                THEN Append(@, [m |-> f.m, s |-> I16(score)]) ELSE @],
           f, score)

\* evaluation noise at the root
Noise(M, f, score, got_accurate) ==
    IF f.ply = 0 /\ M.s.search_eval_noise # 0
    THEN Candidate([M EXCEPT !.s.search_rng_state = XorShift(@)], f,
                   score + RandNoise(XorShift(M.s.search_rng_state), M.s.search_eval_noise),
                   got_accurate)
    ELSE Candidate(M, f, score, got_accurate)

\* the score of the stopped child is used like any other
Searched_uses_score_after_stop(M, f, score, got_accurate) ==
    Noise(M, f, score, got_accurate)

\* the stopped call returns with its moves left on the pool
Searched_keeps_pool_on_stop(M, f, score, got_accurate) ==
    IF M.s.search_stopped THEN Return(M, 0)
    ELSE Noise(M, f, score, got_accurate)

\* negamax behind the recursion, the move unmade
Searched(M, f, score, got_accurate) ==
    IF M.s.search_stopped THEN Return(ResetPool(M, f.base), 0)
    ELSE Noise(M, f, score, got_accurate)

PvsFloor(M, f) ==
    IF f.ply = 0 /\ M.s.search_move_variance # 0
    THEN f.alpha - M.s.search_move_variance ELSE f.alpha

\* negamax: the child searched for move f.m returned; unmade is the board
\* with the move taken back
NegamaxReturn(M, f, unmade) ==
    IF f.call = "lmr" /\ -M.s.ret > f.alpha /\ ~M.s.search_stopped THEN Research(M, f)
    ELSE IF f.call = "pvs" /\ -M.s.ret > f.alpha /\ -M.s.ret < f.beta
            /\ ~M.s.search_stopped
    THEN Research(M, f)
    ELSE Searched([M EXCEPT !.h = search_history_pop(M.h), !.b = unmade], f, -M.s.ret,
                  f.call \in {"first", "re"} \/ -M.s.ret > PvsFloor(M, f))

QuiescenceReturned(M, f, score) ==
    IF M.s.search_stopped THEN Return(ResetPool(M, f.base), 0)
    ELSE IF score > f.alpha /\ score >= f.beta THEN Return(ResetPool(M, f.base), f.beta)
    ELSE WithTop(M, [f EXCEPT !.alpha = IF score > f.alpha THEN score ELSE @,
                              !.i = @ + 1, !.pc = "loop"])

QuiescenceReturn(M, f, unmade) == QuiescenceReturned([M EXCEPT !.b = unmade], f, -M.s.ret)

ChildReturned(M, unmade) ==
    IF TopFrame(M.s).kind = "negamax" THEN NegamaxReturn(M, TopFrame(M.s), unmade)
    ELSE QuiescenceReturn(M, TopFrame(M.s), unmade)

\* ---- search_go ----

NoResult == [best_move |-> MOVE_NONE, score |-> 0, depth |-> 0, nodes |-> 0]

NoStop == [kind |-> "", null |-> FALSE]

\* the statics of search.c after search_init()
search_init ==
    [pc |-> "idle", limits |-> [max_depth |-> 0, max_time_ms |-> 0, max_nodes |-> 0,
                                time_fn |-> FALSE, eval_noise |-> 0, move_variance |-> 0],
     max_depth |-> 0, d |-> 0, result |-> NoResult, asp_alpha |-> 0, asp_beta |-> 0,
     research |-> FALSE,
     search_nodes |-> 0, search_stopped |-> FALSE, search_deadline |-> 0,
     search_max_nodes |-> 0, search_node_deadline |-> 0, search_time_fn |-> FALSE,
     search_best_root_move |-> MOVE_NONE, search_eval_noise |-> 0,
     search_move_variance |-> 0, search_rng_state |-> {},
     root_moves |-> << >>, root_pending |-> << >>,
     move_sp |-> 0, pool |-> << >>, killers |-> [p \in {} |-> 0],
     history |-> [k \in {} |-> 0], frames |-> << >>, ret |-> 0, now |-> 0,
     first_root_move |-> MOVE_NONE, committed |-> NoResult, passes |-> 0,
     retries |-> 0, searches |-> 0, stopped_in |-> NoStop]

\* 0xDEAD
DEAD == {0, 2, 3, 5, 7, 9, 10, 11, 12, 14, 15}

\* search_go up to the iterative-deepening loop; t1 and t2 are what the time
\* callback returns for the deadline and for the seed
SearchStart(s, b, limits, t1, t2) ==
    [s EXCEPT
        !.pc = "loop", !.limits = limits,
        !.search_nodes = 0, !.search_stopped = FALSE,
        !.search_best_root_move = MOVE_NONE, !.move_sp = 0, !.pool = << >>,
        !.search_time_fn = limits.time_fn,
        !.search_deadline = IF limits.max_time_ms # 0 /\ limits.time_fn
                            THEN t1 + limits.max_time_ms ELSE 0,
        !.search_max_nodes = limits.max_nodes,
        !.search_node_deadline = limits.max_time_ms,
        !.search_eval_noise = limits.eval_noise,
        !.search_move_variance = limits.move_variance,
        !.search_rng_state = IF limits.time_fn THEN Xor(Xor(b.hash, DEAD), ToBits(t2))
                             ELSE Xor(b.hash, DEAD),
        !.now = IF limits.time_fn THEN t2 ELSE @,
        !.max_depth = IF limits.max_depth = 0
                      THEN (IF limits.max_time_ms = 0 /\ limits.max_nodes = 0 THEN 1
                            ELSE MAX_PLY - 1)
                      ELSE limits.max_depth,
        !.result = NoResult, !.d = 1,
        !.frames = << >>, !.first_root_move = MOVE_NONE, !.committed = NoResult,
        !.passes = 0, !.retries = 0, !.searches = @ + 1, !.stopped_in = NoStop]

\* the loop test holds: the head of the loop body and the root call
Iterate(s) ==
    LET narrow == s.d > 1 /\ s.result.best_move.from # SQ_NONE
    IN [s EXCEPT
        !.pc = "tree", !.search_best_root_move = MOVE_NONE, !.root_pending = << >>,
        !.asp_alpha = IF narrow THEN s.result.score - 25 ELSE -SCORE_INF,
        !.asp_beta = IF narrow THEN s.result.score + 25 ELSE SCORE_INF,
        !.research = FALSE, !.first_root_move = MOVE_NONE, !.passes = @ + 1,
        !.frames = <<NegamaxFrame(s.d, IF narrow THEN s.result.score - 25 ELSE -SCORE_INF,
                                  IF narrow THEN s.result.score + 25 ELSE SCORE_INF,
                                  0, TRUE, 0)>>]

\* the completed iteration is committed when it recorded a root move
Commit(s) ==
    IF s.search_best_root_move.from # SQ_NONE
    THEN [s EXCEPT !.result = [best_move |-> s.search_best_root_move, score |-> s.ret,
                               depth |-> U8(s.d), nodes |-> s.search_nodes],
                   !.committed = [best_move |-> s.search_best_root_move, score |-> s.ret,
                                  depth |-> U8(s.d), nodes |-> s.search_nodes],
                   !.root_moves = s.root_pending]
    ELSE s

\* the root call returned its score in s.ret; t is what the time callback
\* returns when the deadline is extended
IterationDone(s, t) ==
    IF ~s.research /\ ~s.search_stopped /\ (s.ret <= s.asp_alpha \/ s.ret >= s.asp_beta)
    THEN [s EXCEPT !.pc = "tree", !.search_best_root_move = MOVE_NONE,
                   !.root_pending = << >>, !.research = TRUE,
                   !.first_root_move = MOVE_NONE,
                   !.frames = <<NegamaxFrame(s.d, -SCORE_INF, SCORE_INF, 0, TRUE, 0)>>]
    ELSE IF s.search_stopped
    THEN (IF s.result.best_move.from = SQ_NONE /\ s.search_best_root_move.from = SQ_NONE
             /\ s.search_deadline # 0 /\ s.search_time_fn
          THEN [s EXCEPT !.pc = "loop", !.search_deadline = t + 5000, !.now = t,
                         !.search_stopped = FALSE, !.d = I8(I8(@ - 1) + 1),
                         !.retries = @ + 1]
          ELSE [s EXCEPT !.pc = "exit"])
    ELSE [Commit(s) EXCEPT !.pc = "loop", !.d = I8(@ + 1)]

\* Fallback for a build in which the move of a stopped iteration replaces a
\* committed result
Fallback_overwrites_committed(s) ==
    IF s.search_best_root_move.from # SQ_NONE
    THEN [s EXCEPT !.result = [best_move |-> s.search_best_root_move, score |-> 0,
                               depth |-> 0, nodes |-> s.search_nodes]]
    ELSE s

\* "If no completed iteration, try to return any move found"
Fallback(s) ==
    IF s.result.best_move.from = SQ_NONE /\ s.search_best_root_move.from # SQ_NONE
    THEN [s EXCEPT !.result = [best_move |-> s.search_best_root_move, score |-> 0,
                               depth |-> 0, nodes |-> s.search_nodes]]
    ELSE s

MaxScore(cands) ==
    IF \A i \in 1..Len(cands) : cands[i].s <= -30000 THEN -30000
    ELSE CHOOSE v \in {cands[i].s : i \in 1..Len(cands)} :
            \A i \in 1..Len(cands) : cands[i].s <= v

\* the indices of the root candidates within the threshold, in order
Within(cands, threshold) ==
    SelectFrom([i \in 1..Len(cands) |-> i], LAMBDA i : cands[i].s >= threshold, 1)

\* move variance: a random pick among the candidates near the best score
Variance(s) ==
    LET within == Within(s.root_moves,
                         I16(MaxScore(s.root_moves) - I16(s.search_move_variance)))
        pick == U8(ModBits(XorShift(s.search_rng_state), Len(within)))
    IN IF s.search_move_variance # 0 /\ Len(s.root_moves) > 1 /\ Len(within) > 1
       THEN [s EXCEPT !.search_rng_state = XorShift(@),
                      !.result.best_move = s.root_moves[within[pick + 1]].m,
                      !.result.score = s.root_moves[within[pick + 1]].s]
       ELSE s

\* search_go behind the loop; the call has returned
SearchEnd(s) == [Variance(Fallback(s)) EXCEPT !.pc = "idle"]


\* ------------------------------------------------------------------------
\* engine.c
\* ------------------------------------------------------------------------

ENGINE_STATUS_NORMAL == 0
ENGINE_STATUS_CHECK == 1
ENGINE_STATUS_CHECKMATE == 2
ENGINE_STATUS_STALEMATE == 3
ENGINE_STATUS_DRAW_50 == 4
ENGINE_STATUS_DRAW_REP == 5
ENGINE_STATUS_DRAW_MAT == 6
ENGINE_EP_NONE == 255

internal_to_engine_move(m) ==
    [from_row |-> SQ_TO_ROW(m.from), from_col |-> SQ_TO_COL(m.from),
     to_row |-> SQ_TO_ROW(m.to), to_col |-> SQ_TO_COL(m.to), flags |-> m.flags]

engine_to_internal_move(em) ==
    [from |-> RC_TO_SQ(em.from_row, em.from_col),
     to |-> RC_TO_SQ(em.to_row, em.to_col), flags |-> em.flags]

\* some entry of the side's piece list is a knight or a bishop
HasMinor(b, side) ==
    \E i \in 0..(b.piece_count[side] - 1) :
        PIECE_TYPE(b.squares[b.piece_list[side][i]]) \in {PIECE_KNIGHT, PIECE_BISHOP}

\* a variant that looks for the lone minor piece on white's side only
is_insufficient_material_white_only(b) ==
    \/ b.piece_count[WHITE] = 1 /\ b.piece_count[BLACK] = 1
    \/ b.piece_count[WHITE] = 2 /\ b.piece_count[BLACK] = 1 /\ HasMinor(b, WHITE)

is_insufficient_material(b) ==
    \/ b.piece_count[WHITE] = 1 /\ b.piece_count[BLACK] = 1
    \/ b.piece_count[WHITE] = 1 /\ b.piece_count[BLACK] = 2 /\ HasMinor(b, BLACK)
    \/ b.piece_count[WHITE] = 2 /\ b.piece_count[BLACK] = 1 /\ HasMinor(b, WHITE)

\* one turn of the loops that try a generated move: board_make, the legality
\* test on the board it gives, and the board after board_unmake
Tried(r, m) == [legal |-> board_is_legal(r.b), b |-> board_unmake(r.b, m, r.u), made |-> r]

TryMove(b, m) == Tried(board_make(b, m), m)

\* compute_status, "Check for any legal move": make and unmake the generated
\* moves from moves[i] on until one is legal
RECURSIVE AnyLegal(_, _, _)
AnyLegalNext(t, moves, i) ==
    IF t.legal THEN [b |-> t.b, has_legal |-> TRUE]
    ELSE AnyLegal(t.b, moves, i + 1)

AnyLegal(b, moves, i) ==
    IF i > Len(moves) THEN [b |-> b, has_legal |-> FALSE]
    ELSE AnyLegalNext(TryMove(b, moves[i]), moves, i)

StatusOf(has_legal, in_check) ==
    IF ~has_legal
    THEN (IF in_check THEN ENGINE_STATUS_CHECKMATE ELSE ENGINE_STATUS_STALEMATE)
    ELSE IF in_check THEN ENGINE_STATUS_CHECK ELSE ENGINE_STATUS_NORMAL

StatusResult(scan, in_check) ==
    [status |-> StatusOf(scan.has_legal, in_check), b |-> scan.b]

\* the status returned and the board as the call leaves it
compute_status(b) ==
    IF b.halfmove >= 100 THEN [status |-> ENGINE_STATUS_DRAW_50, b |-> b]
    ELSE IF is_insufficient_material(b) THEN [status |-> ENGINE_STATUS_DRAW_MAT, b |-> b]
    ELSE StatusResult(AnyLegal(b, generate_moves(b, GEN_ALL), 1),
                      is_square_attacked(b, b.king_sq[b.side], 1 - b.side))

\* the loop of engine_get_all_moves / engine_get_moves_from from moves[i] on
RECURSIVE LegalLoop(_, _, _, _, _)
LegalLoopNext(t, moves, i, max, out) ==
    LegalLoop(t.b, moves, i + 1, max,
              IF t.legal THEN Append(out, internal_to_engine_move(moves[i])) ELSE out)

LegalLoop(b, moves, i, max, out) ==
    IF i > Len(moves) \/ Len(out) >= max THEN [b |-> b, out |-> out]
    ELSE LegalLoopNext(TryMove(b, moves[i]), moves, i, max, out)

engine_get_all_moves(b, max) == LegalLoop(b, generate_moves(b, GEN_ALL), 1, max, << >>)

engine_get_moves_from(b, row, col, max) ==
    LegalLoop(b, generate_moves_from(b, RC_TO_SQ(row, col)), 1, max, << >>)

\* flags & FLAG_PROMO_MASK
PromoMask(flags) == ((flags \div 16) % 4) * 16

\* engine_make_move, "Move is legal and applied. Update history.": r is what
\* board_make returned, st what compute_status returns on the new position
HistoryAfter(r, h, w) ==
    search_history_push(IF PIECE_TYPE(r.u.moved_piece) = PIECE_PAWN
                           \/ HasFlag(r.u.flags, FLAG_CAPTURE)
                        THEN search_history_set_irreversible(h) ELSE h,
                        r.b.hash, w)

MoveApplied(st, h, m) == [b |-> st.b, h |-> h, status |-> st.status, made |-> m]

\* the matching loop of engine_make_move from moves[i] on
RECURSIVE MakeMoveLoop(_, _, _, _, _, _)
MakeMoveTry(t, h, moves, i, target, w) ==
    IF ~t.legal THEN MakeMoveLoop(t.b, h, moves, i + 1, target, w)
    ELSE MoveApplied(compute_status(t.made.b), HistoryAfter(t.made, h, w), moves[i])

MakeMoveLoop(b, h, moves, i, target, w) ==
    IF i > Len(moves)
    THEN [b |-> b, h |-> h, status |-> ENGINE_STATUS_NORMAL, made |-> MOVE_NONE]
    ELSE IF moves[i].to # target.to
    THEN MakeMoveLoop(b, h, moves, i + 1, target, w)
    ELSE IF HasFlag(moves[i].flags, FLAG_PROMOTION)
               /\ PromoMask(moves[i].flags) # PromoMask(target.flags)
    THEN MakeMoveLoop(b, h, moves, i + 1, target, w)
    ELSE MakeMoveTry(TryMove(b, moves[i]), h, moves, i, target, w)

engine_make_move(b, h, em, w) ==
    MakeMoveLoop(b, h, generate_moves_from(b, engine_to_internal_move(em).from), 1,
                 engine_to_internal_move(em), w)

\* engine_get_position: the fields of an engine_position_t read from the board
engine_get_position(b) ==
    [ui_board |-> [r \in 0..7 |-> [c \in 0..7 |->
                      engine_to_ui_piece(b.squares[RC_TO_SQ(r, c)])]],
     turn |-> IF b.side = WHITE THEN 1 ELSE -1,
     castling |-> b.castling,
     ep_row |-> IF b.ep_square # SQ_NONE THEN SQ_TO_ROW(b.ep_square) ELSE ENGINE_EP_NONE,
     ep_col |-> IF b.ep_square # SQ_NONE THEN SQ_TO_COL(b.ep_square) ELSE ENGINE_EP_NONE,
     halfmove |-> b.halfmove,
     fullmove |-> b.fullmove]

\* ------------------------------------------------------------------------
\* State
\* ------------------------------------------------------------------------

VARIABLES
    uint_bits,     \* width of `unsigned int` (zhash_t) in the build: 24 or 32
    board,         \* the board_t the caller works on (engine_board in engine.c)
    undo_stack,    \* the callers' undo_t records of the moves made and not unmade
    pos_history,   \* search.c: pos_history[], its count and the irreversible mark
    last,          \* the last call made and what it returned
    steps,         \* number of calls made so far in the run
    game,          \* the positions of the game since the position was set
    tt,            \* tt.c: the transposition table
    pawn_cache,    \* eval.c: pawn_cache[] and pawn_cache_victim[]
    search,        \* search.c: the other statics and the call stack of search_go
    calls          \* the calls of the run whose results a property compares, oldest first

vars == <<uint_bits, board, undo_stack, pos_history, last, steps, game, tt, pawn_cache,
          search, calls>>

\* a position as the UI hands it over: the 8x8 board with row 0 = rank 8, the
\* side to move (1 = white, -1 = black), castling rights, en passant target
\* (0xFF, 0xFF when none) and the two clocks
UiPos(rows, turn, castling, ep_row, ep_col, halfmove, fullmove) ==
    [ui_board |-> [r \in 0..7 |-> [c \in 0..7 |-> rows[r + 1][c + 1]]],
     turn |-> turn, castling |-> castling, ep_row |-> ep_row, ep_col |-> ep_col,
     halfmove |-> halfmove, fullmove |-> fullmove]

SetFromUi(p, w) ==
    board_set_from_ui(p.ui_board, p.turn, p.castling, p.ep_row, p.ep_col,
                      p.halfmove, p.fullmove, w)

EmptyRow == <<0, 0, 0, 0, 0, 0, 0, 0>>

\* ------------------------------------------------------------------------
\* Board specification: a caller that sets a position up and walks the move
\* tree with board_make / board_unmake the way perft does (perft.c)
\* ------------------------------------------------------------------------

\* deepest nesting of made moves, and most board_make calls in a run
MaxPly == 2
MaxMakes == 2

BoardPositions ==
    << \* 2n1k2r/1P6/8/3pP3/8/8/8/R3K3 w Qk d6: castling on both wings, en
       \* passant, promotion and promotion-capture of the head of a piece list
       UiPos(<< <<0, 0, -2, 0, -6, 0, 0, -4>>, <<0, 1, 0, 0, 0, 0, 0, 0>>, EmptyRow,
                <<0, 0, 0, -1, 1, 0, 0, 0>>, EmptyRow, EmptyRow, EmptyRow,
                <<4, 0, 0, 0, 6, 0, 0, 0>> >>, 1, 6, 2, 3, 0, 10),
       \* 7k/1p6/8/P7/8/8/6p1/2K4R b: black double push answered en passant,
       \* black promotion and promotion-capture
       UiPos(<< <<0, 0, 0, 0, 0, 0, 0, -6>>, <<0, -1, 0, 0, 0, 0, 0, 0>>, EmptyRow,
                <<1, 0, 0, 0, 0, 0, 0, 0>>, EmptyRow, EmptyRow,
                <<0, 0, 0, 0, 0, 0, -1, 0>>, <<0, 0, 6, 0, 0, 0, 0, 4>> >>,
             -1, 0, 255, 255, 7, 30),
       \* r3k2r/4p3/8/8/8/8/4P3/R3K2R w KQkq, halfmove clock 254: all four
       \* rights with moves and captures on the corners, double pushes of both
       \* sides, the clock at its top
       UiPos(<< <<-4, 0, 0, 0, -6, 0, 0, -4>>, <<0, 0, 0, 0, -1, 0, 0, 0>>, EmptyRow,
                EmptyRow, EmptyRow, EmptyRow, <<0, 0, 0, 0, 1, 0, 0, 0>>,
                <<4, 0, 0, 0, 6, 0, 0, 4>> >>, 1, 15, 255, 255, 254, 150),
       \* r1bqkbnr/pPpppppp/n7/8/8/8/1PPPPPPP/RNBQKBNR w KQkq: every piece of
       \* the starting position on the board and a pawn about to promote
       UiPos(<< <<-4, 0, -3, -5, -6, -3, -2, -4>>, <<-1, 1, -1, -1, -1, -1, -1, -1>>,
                <<-2, 0, 0, 0, 0, 0, 0, 0>>, EmptyRow, EmptyRow, EmptyRow,
                <<0, 1, 1, 1, 1, 1, 1, 1>>, <<4, 2, 3, 5, 6, 3, 2, 4>> >>,
             1, 15, 255, 255, 0, 9) >>

NoCall == [op |-> "none", m |-> MOVE_NONE, arg |-> 0, before |-> << >>, result |-> << >>]

BoardInit ==
    /\ uint_bits \in {24, 32}
    /\ \E i \in 1..Len(BoardPositions) : board = SetFromUi(BoardPositions[i], uint_bits)
    /\ undo_stack = << >>
    /\ pos_history = search_history_clear
    /\ last = [NoCall EXCEPT !.op = "board_set_from_ui"]
    /\ steps = 0
    /\ game = << >>
    /\ tt = tt_clear
    /\ pawn_cache = pawn_cache_init
    /\ search = search_init
    /\ calls = << >>

\* board_make of a generated move; a position whose last move left the
\* mover's king attacked is only ever unmade
BoardMake ==
    /\ Len(undo_stack) < MaxPly
    /\ steps < MaxMakes
    /\ undo_stack = << >> \/ board_is_legal(board)
    /\ LET moves == generate_moves(board, GEN_ALL)
       IN \E i \in 1..Len(moves) :
             LET m == moves[i]
                 r == board_make(board, m)
             IN /\ board' = r.b
                /\ undo_stack' = Append(undo_stack, [m |-> m, u |-> r.u, before |-> board])
                /\ last' = [NoCall EXCEPT !.op = "board_make", !.m = m, !.before = board]
    /\ steps' = steps + 1
    /\ UNCHANGED <<uint_bits, pos_history, game, tt, pawn_cache, search, calls>>

BoardUnmake ==
    /\ undo_stack # << >>
    /\ LET top == undo_stack[Len(undo_stack)]
       IN /\ board' = board_unmake(board, top.m, top.u)
          /\ undo_stack' = SubSeq(undo_stack, 1, Len(undo_stack) - 1)
          /\ last' = [NoCall EXCEPT !.op = "board_unmake", !.m = top.m, !.before = top.before]
    /\ UNCHANGED <<uint_bits, pos_history, steps, game, tt, pawn_cache, search, calls>>

BoardNext == BoardMake \/ BoardUnmake

SpecBoard == BoardInit /\ [][BoardNext]_vars

\* the sums test_search.c recomputes from the squares alone
RECURSIVE EvalOver(_, _)
EvalOver(b, occ) ==
    IF occ = {} THEN [mg |-> [s \in 0..1 |-> 0], eg |-> [s \in 0..1 |-> 0], ph |-> 0]
    ELSE LET sq == CHOOSE x \in occ : TRUE
             side == IF IS_BLACK(b.squares[sq]) THEN BLACK ELSE WHITE
             idx == EVAL_INDEX(PIECE_TYPE(b.squares[sq]))
             r == EvalOver(b, occ \ {sq})
         IN [mg |-> [r.mg EXCEPT ![side] = @ + MG(idx, PstSq(side, sq))],
             eg |-> [r.eg EXCEPT ![side] = @ + EG(idx, PstSq(side, sq))],
             ph |-> r.ph + PW(idx)]

recompute_eval(b) ==
    EvalOver(b, {sq \in 0..127 : SQ_VALID(sq) /\ b.squares[sq] # PIECE_NONE})

\* C2: board_make(m, u) followed by board_unmake(m, u) leaves every field of
\* the board equal to its value before the pair, the order of the entries of
\* piece_list included, also when the pair encloses other matched pairs
C2_MakeUnmakeRestoresBoard ==
    last.op = "board_unmake" => board = last.before

\* the fields other than piece_list and piece_index are restored by the pair
C2_FieldsRestoredUpToListOrder ==
    last.op = "board_unmake" =>
        /\ [board EXCEPT !.piece_list = 0, !.piece_index = 0]
              = [last.before EXCEPT !.piece_list = 0, !.piece_index = 0]
        /\ \A s \in 0..1 :
              {board.piece_list[s][i] : i \in 0..(board.piece_count[s] - 1)}
                 = {last.before.piece_list[s][i] : i \in 0..(board.piece_count[s] - 1)}

\* C3: after board_set_from_ui and any sequence of board_make / board_unmake
\* calls the incrementally maintained hash, pawn_hash, lock, mg, eg and phase
\* equal the values recomputed from scratch from squares, castling, ep_square
\* and side
C3_IncrementalEqualsScratch ==
    /\ board.hash = board_compute_hash(board, uint_bits).hash
    /\ board.pawn_hash = board_compute_hash(board, uint_bits).pawn_hash
    /\ board.lock = board_compute_hash(board, uint_bits).lock
    /\ board.mg = recompute_eval(board).mg
    /\ board.eg = recompute_eval(board).eg
    /\ board.phase = recompute_eval(board).ph

\* where unsigned int has 32 bits the incremental values do equal the scratch
\* ones; lock, mg, eg and phase do on every build
C3_ScratchOn32BitBuild ==
    /\ uint_bits = 32 => C3_IncrementalEqualsScratch
    /\ board.lock = board_compute_hash(board, uint_bits).lock
    /\ board.mg = recompute_eval(board).mg
    /\ board.eg = recompute_eval(board).eg
    /\ board.phase = recompute_eval(board).ph

\* ------------------------------------------------------------------------
\* Engine specification: a UI that sets positions and plays moves through the
\* facade of engine.c
\* ------------------------------------------------------------------------

\* most moves applied in one game
MaxGamePly == 4

K1 == <<6, 0, 0, 0, 0, 0, 0, 0>>
k1 == <<-6, 0, 0, 0, 0, 0, 0, 0>>

EnginePositions ==
    << \* 7k/7p/7P/8/8/p7/P7/K7 w: locked pawns, the kings can only shuffle
       UiPos(<< <<0, 0, 0, 0, 0, 0, 0, -6>>, <<0, 0, 0, 0, 0, 0, 0, -1>>,
                <<0, 0, 0, 0, 0, 0, 0, 1>>, EmptyRow, EmptyRow,
                <<-1, 0, 0, 0, 0, 0, 0, 0>>, <<1, 0, 0, 0, 0, 0, 0, 0>>, K1 >>,
             1, 0, 255, 255, 0, 1),
       \* 7k/8/6K1/8/8/8/8/R7 w: Ra8 mates; halfmove clock 10 and 99
       UiPos(<< <<0, 0, 0, 0, 0, 0, 0, -6>>, EmptyRow, <<0, 0, 0, 0, 0, 0, 6, 0>>,
                EmptyRow, EmptyRow, EmptyRow, EmptyRow, <<4, 0, 0, 0, 0, 0, 0, 0>> >>,
             1, 0, 255, 255, 10, 40),
       UiPos(<< <<0, 0, 0, 0, 0, 0, 0, -6>>, EmptyRow, <<0, 0, 0, 0, 0, 0, 6, 0>>,
                EmptyRow, EmptyRow, EmptyRow, EmptyRow, <<4, 0, 0, 0, 0, 0, 0, 0>> >>,
             1, 0, 255, 255, 99, 80),
       \* 7k/8/6K1/8/8/8/8/5Q2 w: Qf7 stalemates
       UiPos(<< <<0, 0, 0, 0, 0, 0, 0, -6>>, EmptyRow, <<0, 0, 0, 0, 0, 0, 6, 0>>,
                EmptyRow, EmptyRow, EmptyRow, EmptyRow, <<0, 0, 0, 0, 0, 5, 0, 0>> >>,
             1, 0, 255, 255, 3, 40),
       \* k7/2K5/2N5/8/8/8/8/8 b: king and knight against a stalemated king
       UiPos(<< k1, <<0, 0, 6, 0, 0, 0, 0, 0>>, <<0, 0, 2, 0, 0, 0, 0, 0>>,
                EmptyRow, EmptyRow, EmptyRow, EmptyRow, EmptyRow >>,
             -1, 0, 255, 255, 12, 50),
       \* 8/8/8/8/8/2p5/8/k1KN4 w: Nxc3 leaves king and knight against king
       UiPos(<< EmptyRow, EmptyRow, EmptyRow, EmptyRow, EmptyRow,
                <<0, 0, -1, 0, 0, 0, 0, 0>>, EmptyRow, <<-6, 0, 6, 2, 0, 0, 0, 0>> >>,
             1, 0, 255, 255, 5, 60),
       \* k7/8/K7/8/8/8/8/8 w: bare kings, halfmove clock 0 and 100
       UiPos(<< k1, EmptyRow, K1, EmptyRow, EmptyRow, EmptyRow, EmptyRow, EmptyRow >>,
             1, 0, 255, 255, 0, 70),
       UiPos(<< k1, EmptyRow, K1, EmptyRow, EmptyRow, EmptyRow, EmptyRow, EmptyRow >>,
             1, 0, 255, 255, 100, 70),
       \* k1b5/8/K7/8/8/8/8/8 w: the lone bishop is black's
       UiPos(<< <<-6, 0, -3, 0, 0, 0, 0, 0>>, EmptyRow, K1, EmptyRow, EmptyRow,
                EmptyRow, EmptyRow, EmptyRow >>, 1, 0, 255, 255, 0, 70),
       \* k1b5/8/K7/8/8/8/8/5B2 w: a bishop each
       UiPos(<< <<-6, 0, -3, 0, 0, 0, 0, 0>>, EmptyRow, K1, EmptyRow, EmptyRow,
                EmptyRow, EmptyRow, <<0, 0, 0, 0, 0, 3, 0, 0>> >>, 1, 0, 255, 255, 0, 70),
       \* k7/8/K7/8/8/8/8/4NN2 b: two knights against the bare king
       UiPos(<< k1, EmptyRow, K1, EmptyRow, EmptyRow, EmptyRow, EmptyRow,
                <<0, 0, 0, 0, 2, 2, 0, 0>> >>, -1, 0, 255, 255, 0, 70) >>

UiMove(from_row, from_col, to_row, to_col) ==
    [from_row |-> from_row, from_col |-> from_col, to_row |-> to_row,
     to_col |-> to_col, flags |-> 0]

\* the moves the UI asks for: the king shuffles a1-b1, b1-a1, h8-g8, g8-h8,
\* Ra1-a8, Qf1-f7, Nd1xc3 and Kg6-h7 (next to the black king)
EngineMoves ==
    { UiMove(7, 0, 7, 1), UiMove(7, 1, 7, 0), UiMove(0, 7, 0, 6), UiMove(0, 6, 0, 7),
      UiMove(7, 0, 0, 0), UiMove(7, 5, 1, 5), UiMove(7, 3, 5, 2), UiMove(2, 6, 1, 7) }

\* what identifies a position for the repetition rule
PositionKey(b) ==
    [squares |-> b.squares, side |-> b.side, castling |-> b.castling,
     ep_square |-> b.ep_square]

\* engine_init
EngineInit ==
    /\ uint_bits \in {24, 32}
    /\ board = board_init
    /\ undo_stack = << >>
    /\ pos_history = search_history_clear
    /\ last = [NoCall EXCEPT !.op = "engine_init"]
    /\ steps = 0
    /\ game = << >>
    /\ tt = tt_clear
    /\ pawn_cache = pawn_cache_init
    /\ search = search_init
    /\ calls = << >>

EngineSetPosition ==
    /\ \E i \in 1..Len(EnginePositions) :
          LET b == SetFromUi(EnginePositions[i], uint_bits)
          IN /\ board' = b
             /\ pos_history' = search_history_push(search_history_clear, b.hash, uint_bits)
             /\ game' = <<PositionKey(b)>>
    /\ last' = [NoCall EXCEPT !.op = "engine_set_position"]
    /\ steps' = 0
    /\ UNCHANGED <<uint_bits, undo_stack, tt, pawn_cache, search, calls>>

\* the state after engine_make_move returned r
MakeMoveReturns(r) ==
    /\ board' = r.b
    /\ pos_history' = r.h
    /\ last' = [NoCall EXCEPT !.op = "engine_make_move", !.m = r.made,
                              !.before = board, !.result = r.status]
    /\ game' = IF r.made = MOVE_NONE THEN game ELSE Append(game, PositionKey(r.b))
    /\ steps' = IF r.made = MOVE_NONE THEN steps ELSE steps + 1

EngineMakeMove ==
    /\ game # << >>
    /\ steps < MaxGamePly
    /\ \E em \in EngineMoves :
          MakeMoveReturns(engine_make_move(board, pos_history, em, uint_bits))
    /\ UNCHANGED <<uint_bits, undo_stack, tt, pawn_cache, search, calls>>

GetAllMovesReturns(r, max) ==
    /\ board' = r.b
    /\ last' = [NoCall EXCEPT !.op = "engine_get_all_moves", !.arg = max,
                              !.before = board, !.result = r.out]

EngineGetAllMoves ==
    /\ game # << >>
    /\ \E max \in {1, 255} : GetAllMovesReturns(engine_get_all_moves(board, max), max)
    /\ UNCHANGED <<uint_bits, undo_stack, pos_history, steps, game, tt, pawn_cache, search, calls>>

GetStatusReturns(r) ==
    /\ board' = r.b
    /\ last' = [NoCall EXCEPT !.op = "engine_get_status", !.before = board,
                              !.result = r.status]

EngineGetStatus ==
    /\ game # << >>
    /\ GetStatusReturns(compute_status(board))
    /\ UNCHANGED <<uint_bits, undo_stack, pos_history, steps, game, tt, pawn_cache, search, calls>>

EngineNext ==
    \/ EngineSetPosition
    \/ EngineMakeMove
    \/ EngineGetAllMoves
    \/ EngineGetStatus

SpecEngine == EngineInit /\ [][EngineNext]_vars

\* the legal moves of a position: the generated moves after which the mover's
\* king is not attacked
LegalMoves(b) ==
    LET moves == generate_moves(b, GEN_ALL)
    IN {moves[i] : i \in {j \in 1..Len(moves) : board_is_legal(board_make(b, moves[j]).b)}}

InCheck(b) == is_square_attacked(b, b.king_sq[b.side], 1 - b.side)

SeqRange(s) == {s[i] : i \in 1..Len(s)}

\* the last call returned the status computed for the position now on the board
StatusReturned ==
    \/ last.op = "engine_get_status"
    \/ last.op = "engine_make_move" /\ last.m # MOVE_NONE

\* C7: engine_get_all_moves, called with max at least the number of results,
\* returns exactly the legal moves of the side to move, each once, and leaves
\* the board unchanged
C7_AllMovesExactAndBoardUnchanged ==
    (last.op = "engine_get_all_moves" /\ last.arg >= Cardinality(LegalMoves(last.before))) =>
        /\ SeqRange(last.result) = {internal_to_engine_move(m) : m \in LegalMoves(last.before)}
        /\ Len(last.result) = Cardinality(SeqRange(last.result))
        /\ board = last.before

\* the moves returned are the legal ones, each once, and the board is the
\* same up to the order of the piece lists
C7_AllMovesExactUpToListOrder ==
    (last.op = "engine_get_all_moves" /\ last.arg >= Cardinality(LegalMoves(last.before))) =>
        /\ SeqRange(last.result) = {internal_to_engine_move(m) : m \in LegalMoves(last.before)}
        /\ Len(last.result) = Cardinality(SeqRange(last.result))
        /\ [board EXCEPT !.piece_list = 0, !.piece_index = 0]
              = [last.before EXCEPT !.piece_list = 0, !.piece_index = 0]

\* C8: the status computed for a position is checkmate whenever the side to
\* move has no legal move and its king is attacked, and stalemate whenever it
\* has no legal move and its king is not attacked
C8_MateAndStalemateStatus ==
    (StatusReturned /\ LegalMoves(board) = {}) =>
        last.result = IF InCheck(board) THEN ENGINE_STATUS_CHECKMATE
                      ELSE ENGINE_STATUS_STALEMATE

\* the same below 100 halfmoves and with more than a lone minor piece on the board
C8_MateAndStalemateWhenNoDrawPrecedes ==
    (StatusReturned /\ LegalMoves(board) = {} /\ board.halfmove < 100
        /\ ~is_insufficient_material(board)) =>
        last.result = IF InCheck(board) THEN ENGINE_STATUS_CHECKMATE
                      ELSE ENGINE_STATUS_STALEMATE

\* the position the applied move produced stood on the board earlier in the game
Repeated == \E i \in 1..(Len(game) - 1) : game[i] = game[Len(game)]

\* C9: every draw kind is propagated through the status engine_make_move
\* returns; when the move just made produces a position that already occurred
\* earlier in the game, engine_make_move returns draw_rep
C9_RepetitionReturnsDrawRep ==
    (last.op = "engine_make_move" /\ last.m # MOVE_NONE /\ Repeated) =>
        last.result = ENGINE_STATUS_DRAW_REP

\* no call returns draw_rep
C9_DrawRepNeverReturned ==
    (last.op \in {"engine_make_move", "engine_get_status"}) =>
        last.result # ENGINE_STATUS_DRAW_REP

\* the squares holding a piece of the side other than its king
NonKings(b, side) ==
    {sq \in 0..127 : /\ SQ_VALID(sq)
                     /\ b.squares[sq] # PIECE_NONE
                     /\ IS_BLACK(b.squares[sq]) = (side = BLACK)
                     /\ PIECE_TYPE(b.squares[sq]) # PIECE_KING}

LoneMinor(b, S) ==
    /\ Cardinality(S) = 1
    /\ \A sq \in S : PIECE_TYPE(b.squares[sq]) \in {PIECE_KNIGHT, PIECE_BISHOP}

\* king against king, or a king and one knight or bishop against a king
BareOrLoneMinor(b) ==
    \/ NonKings(b, WHITE) = {} /\ NonKings(b, BLACK) = {}
    \/ NonKings(b, WHITE) = {} /\ LoneMinor(b, NonKings(b, BLACK))
    \/ NonKings(b, BLACK) = {} /\ LoneMinor(b, NonKings(b, WHITE))

MaxSearches == 2
MaxRetries == 2
MaxNodes == 520
MaxClock == 2000
ClockJump == 1000

SearchPositions ==
    <<
       \* 7k/8/8/8/8/8/8/K7 w, halfmove clock 99: every reply is a draw
       UiPos(<< <<0, 0, 0, 0, 0, 0, 0, -6>>,
             <<0, 0, 0, 0, 0, 0, 0, 0>>,
             <<0, 0, 0, 0, 0, 0, 0, 0>>,
             <<0, 0, 0, 0, 0, 0, 0, 0>>,
             <<0, 0, 0, 0, 0, 0, 0, 0>>,
             <<0, 0, 0, 0, 0, 0, 0, 0>>,
             <<0, 0, 0, 0, 0, 0, 0, 0>>,
             <<6, 0, 0, 0, 0, 0, 0, 0>> >>, 1, 0, 255, 255, 99, 60),
       \* 7k/8/8/8/8/8/P7/K7 w: a3, a4, Kb2, Kb1
       UiPos(<< <<0, 0, 0, 0, 0, 0, 0, -6>>,
             <<0, 0, 0, 0, 0, 0, 0, 0>>,
             <<0, 0, 0, 0, 0, 0, 0, 0>>,
             <<0, 0, 0, 0, 0, 0, 0, 0>>,
             <<0, 0, 0, 0, 0, 0, 0, 0>>,
             <<0, 0, 0, 0, 0, 0, 0, 0>>,
             <<1, 0, 0, 0, 0, 0, 0, 0>>,
             <<6, 0, 0, 0, 0, 0, 0, 0>> >>, 1, 0, 255, 255, 0, 1),
       \* n6k/8/8/8/8/8/8/K6N w: a knight each
       UiPos(<< <<-2, 0, 0, 0, 0, 0, 0, -6>>,
             <<0, 0, 0, 0, 0, 0, 0, 0>>,
             <<0, 0, 0, 0, 0, 0, 0, 0>>,
             <<0, 0, 0, 0, 0, 0, 0, 0>>,
             <<0, 0, 0, 0, 0, 0, 0, 0>>,
             <<0, 0, 0, 0, 0, 0, 0, 0>>,
             <<0, 0, 0, 0, 0, 0, 0, 0>>,
             <<6, 0, 0, 0, 0, 0, 0, 2>> >>, 1, 0, 255, 255, 0, 1),
       \* 4k3/8/8/3p4/4P3/8/8/4K3 w: a capture
       UiPos(<< <<0, 0, 0, 0, -6, 0, 0, 0>>,
             <<0, 0, 0, 0, 0, 0, 0, 0>>,
             <<0, 0, 0, 0, 0, 0, 0, 0>>,
             <<0, 0, 0, -1, 0, 0, 0, 0>>,
             <<0, 0, 0, 0, 1, 0, 0, 0>>,
             <<0, 0, 0, 0, 0, 0, 0, 0>>,
             <<0, 0, 0, 0, 0, 0, 0, 0>>,
             <<0, 0, 0, 0, 6, 0, 0, 0>> >>, 1, 0, 255, 255, 0, 1),
       \* k7/7P/K7/8/8/8/8/8 w: promotions
       UiPos(<< <<-6, 0, 0, 0, 0, 0, 0, 0>>,
             <<0, 0, 0, 0, 0, 0, 0, 1>>,
             <<6, 0, 0, 0, 0, 0, 0, 0>>,
             <<0, 0, 0, 0, 0, 0, 0, 0>>,
             <<0, 0, 0, 0, 0, 0, 0, 0>>,
             <<0, 0, 0, 0, 0, 0, 0, 0>>,
             <<0, 0, 0, 0, 0, 0, 0, 0>>,
             <<0, 0, 0, 0, 0, 0, 0, 0>> >>, 1, 0, 255, 255, 0, 1),
       \* 4k3/8/8/8/8/8/8/4K2R w K: castling
       UiPos(<< <<0, 0, 0, 0, -6, 0, 0, 0>>,
             <<0, 0, 0, 0, 0, 0, 0, 0>>,
             <<0, 0, 0, 0, 0, 0, 0, 0>>,
             <<0, 0, 0, 0, 0, 0, 0, 0>>,
             <<0, 0, 0, 0, 0, 0, 0, 0>>,
             <<0, 0, 0, 0, 0, 0, 0, 0>>,
             <<0, 0, 0, 0, 0, 0, 0, 0>>,
             <<0, 0, 0, 0, 6, 0, 0, 4>> >>, 1, 1, 255, 255, 0, 1),
       \* 7k/8/8/8/8/8/8/K6r w: the root is in check
       UiPos(<< <<0, 0, 0, 0, 0, 0, 0, -6>>,
             <<0, 0, 0, 0, 0, 0, 0, 0>>,
             <<0, 0, 0, 0, 0, 0, 0, 0>>,
             <<0, 0, 0, 0, 0, 0, 0, 0>>,
             <<0, 0, 0, 0, 0, 0, 0, 0>>,
             <<0, 0, 0, 0, 0, 0, 0, 0>>,
             <<0, 0, 0, 0, 0, 0, 0, 0>>,
             <<6, 0, 0, 0, 0, 0, 0, -4>> >>, 1, 0, 255, 255, 0, 1),
       \* 7k/5Q2/6K1/8/8/8/8/8 b: stalemate, no legal move
       UiPos(<< <<0, 0, 0, 0, 0, 0, 0, -6>>,
             <<0, 0, 0, 0, 0, 5, 0, 0>>,
             <<0, 0, 0, 0, 0, 0, 6, 0>>,
             <<0, 0, 0, 0, 0, 0, 0, 0>>,
             <<0, 0, 0, 0, 0, 0, 0, 0>>,
             <<0, 0, 0, 0, 0, 0, 0, 0>>,
             <<0, 0, 0, 0, 0, 0, 0, 0>>,
             <<0, 0, 0, 0, 0, 0, 0, 0>> >>, -1, 0, 255, 255, 0, 1),
       \* n6k/8/8/8/8/8/P7/K7 w: a double push that a null move can answer
       UiPos(<< <<-2, 0, 0, 0, 0, 0, 0, -6>>,
             <<0, 0, 0, 0, 0, 0, 0, 0>>,
             <<0, 0, 0, 0, 0, 0, 0, 0>>,
             <<0, 0, 0, 0, 0, 0, 0, 0>>,
             <<0, 0, 0, 0, 0, 0, 0, 0>>,
             <<0, 0, 0, 0, 0, 0, 0, 0>>,
             <<1, 0, 0, 0, 0, 0, 0, 0>>,
             <<6, 0, 0, 0, 0, 0, 0, 0>> >>, 1, 0, 255, 255, 0, 1) >>

Limits(max_depth, max_time_ms, max_nodes, time_fn) ==
    [max_depth |-> max_depth, max_time_ms |-> max_time_ms, max_nodes |-> max_nodes,
     time_fn |-> time_fn, eval_noise |-> 0, move_variance |-> 0]

\* the limits of the first call of a run
SearchLimits ==
    { Limits(1, 0, 0, FALSE), Limits(2, 0, 0, FALSE), Limits(0, 0, 1, FALSE),
      Limits(0, 0, 6, FALSE), Limits(0, 0, 12, FALSE), Limits(0, 0, 179, FALSE),
      Limits(127, 0, 0, FALSE), Limits(128, 0, 0, FALSE),
      Limits(1, 1, 0, TRUE), Limits(0, 1500, 0, TRUE) }

\* the limits of a later call
AgainLimits == { Limits(1, 0, 0, FALSE) }

Machine == [b |-> board, h |-> pos_history, s |-> search, t |-> tt, c |-> pawn_cache]

Becomes(M) ==
    /\ board' = M.b
    /\ pos_history' = M.h
    /\ search' = M.s
    /\ tt' = M.t
    /\ pawn_cache' = M.c

\* what a monotonic time callback may return after it returned now
Readings(now) == {t \in {now, now + ClockJump} : t <= MaxClock}

\* whether the bytes behind pawn_atk[] are read with the attacked bit set: a
\* choice only where a bishop ray can run into an empty cell behind squares[]
BehindPawnAtk(b) ==
    IF /\ \E side \in {WHITE, BLACK} : PiecesOf(b, side, PIECE_BISHOP) # {}
       /\ \E t \in 128..255 : SquaresAt(b, t) = PIECE_NONE
    THEN BOOLEAN ELSE {FALSE}

\* search_init and an empty board
SearchInit ==
    /\ uint_bits \in {24, 32}
    /\ board = board_init
    /\ undo_stack = << >>
    /\ pos_history = search_history_clear
    /\ last = [NoCall EXCEPT !.op = "search_init"]
    /\ steps = 0
    /\ game = << >>
    /\ tt = tt_clear
    /\ pawn_cache = pawn_cache_init
    /\ search = search_init
    /\ calls = << >>

\* engine_set_position: the board is set up and the history restarted
SearchSetPosition ==
    /\ search.pc = "idle"
    /\ game = << >>
    /\ \E i \in 1..Len(SearchPositions) :
          LET b == SetFromUi(SearchPositions[i], uint_bits)
          IN /\ board' = b
             /\ pos_history' = search_history_push(search_history_clear, b.hash, uint_bits)
             /\ game' = <<PositionKey(b)>>
    /\ last' = [NoCall EXCEPT !.op = "engine_set_position"]
    /\ UNCHANGED <<uint_bits, undo_stack, steps, tt, pawn_cache, search, calls>>

\* the two values the time callback returns at the head of search_go
StartReadings(limits, now) ==
    IF ~limits.time_fn THEN {<<now, now>>}
    ELSE IF limits.max_time_ms = 0 THEN {<<now, t>> : t \in Readings(now)}
    ELSE {<<t1, t2>> \in Readings(now) \X Readings(now) : t1 <= t2}

\* search_go is called
SearchGo ==
    /\ search.pc = "idle"
    /\ game # << >>
    /\ search.searches < MaxSearches
    /\ \E limits \in (IF search.searches = 0 THEN SearchLimits ELSE AgainLimits) :
          /\ \E r \in StartReadings(limits, search.now) :
                search' = SearchStart(search, board, limits, r[1], r[2])
          /\ last' = [NoCall EXCEPT !.op = "search_go", !.arg = limits, !.before = board]
    /\ UNCHANGED <<uint_bits, board, undo_stack, pos_history, steps, game, tt, pawn_cache, calls>>

\* for (d = 1; d <= (int8_t)max_depth; d++): the test holds
SearchIterate ==
    /\ search.pc = "loop"
    /\ search.d <= I8(search.max_depth)
    /\ search' = Iterate(search)
    /\ UNCHANGED <<uint_bits, board, undo_stack, pos_history, last, steps, game, tt,
                   pawn_cache, calls>>

\* the head of negamax or quiescence
EnterNode ==
    /\ search.pc = "tree"
    /\ TopFrame(search).pc = "enter"
    /\ search.search_nodes < MaxNodes
    /\ \E t \in (IF PollsTime(search, search.search_nodes + 1)
                 THEN Readings(search.now) ELSE {search.now}) :
          \E oob \in BehindPawnAtk(board) :
             Becomes(Enter(Machine, evaluate(board, pawn_cache, oob, uint_bits),
                           compute_legal_info(board), t, uint_bits))
    /\ UNCHANGED <<uint_bits, undo_stack, last, steps, game, calls>>

\* the null-move search returned
NullMoveReturn ==
    /\ search.pc = "tree"
    /\ TopFrame(search).pc = "null_ret"
    /\ Becomes(NullReturn(Machine, TopFrame(search)))
    /\ UNCHANGED <<uint_bits, undo_stack, last, steps, game, calls>>

\* the head of a generation stage
GenerateMoves ==
    /\ search.pc = "tree"
    /\ TopFrame(search).pc = "gen"
    /\ \E oob \in BehindPawnAtk(board) :
          Becomes(Generate(Machine, generate_moves(board, GenMode(search)),
                           evaluate(board, pawn_cache, oob, uint_bits)))
    /\ UNCHANGED <<uint_bits, undo_stack, last, steps, game, calls>>

\* one pass of a move loop
SearchMove ==
    /\ search.pc = "tree"
    /\ TopFrame(search).pc = "loop"
    /\ Becomes(Move(Machine, PickedMove(search), TryMove(board, PickedMove(search)),
                    uint_bits))
    /\ UNCHANGED <<uint_bits, undo_stack, last, steps, game, calls>>

\* the recursive call made for a move returned
ChildReturn ==
    /\ search.pc = "tree"
    /\ TopFrame(search).pc = "ret"
    /\ Becomes(ChildReturned(Machine, board_unmake(board, TopFrame(search).m,
                                                   TopFrame(search).undo)))
    /\ UNCHANGED <<uint_bits, undo_stack, last, steps, game, calls>>

\* the deadline is extended and the depth retried
Retries(s) ==
    /\ s.search_stopped
    /\ ~(~s.research /\ ~s.search_stopped)
    /\ s.result.best_move.from = SQ_NONE
    /\ s.search_best_root_move.from = SQ_NONE
    /\ s.search_deadline # 0
    /\ s.search_time_fn

\* the root call returned to search_go
SearchIterationEnd ==
    /\ search.pc = "root_ret"
    /\ Retries(search) => search.retries < MaxRetries
    /\ \E t \in (IF Retries(search) THEN Readings(search.now) ELSE {search.now}) :
          search' = IterationDone(search, t)
    /\ UNCHANGED <<uint_bits, board, undo_stack, pos_history, last, steps, game, tt,
                   pawn_cache, calls>>

\* the loop is left and search_go returns its result
SearchReturn ==
    /\ \/ search.pc = "exit"
       \/ search.pc = "loop" /\ ~(search.d <= I8(search.max_depth))
    /\ search' = SearchEnd(search)
    /\ last' = [last EXCEPT !.result = SearchEnd(search).result]
    /\ calls' = Append(calls, [last EXCEPT !.result = SearchEnd(search).result])
    /\ UNCHANGED <<uint_bits, board, undo_stack, pos_history, steps, game, tt, pawn_cache>>

SearchNext ==
    \/ SearchSetPosition
    \/ SearchGo
    \/ SearchIterate
    \/ EnterNode
    \/ NullMoveReturn
    \/ GenerateMoves
    \/ SearchMove
    \/ ChildReturn
    \/ SearchIterationEnd
    \/ SearchReturn

SpecSearch == SearchInit /\ [][SearchNext]_vars


\* ------------------------------------------------------------------------
\* Properties of search_go
\* ------------------------------------------------------------------------

\* search_go has returned from the call recorded in last
SearchReturned == search.pc = "idle" /\ last.op = "search_go" /\ last.result # << >>

\* C1: for every root position in which the side to move has a legal move, for
\* every choice of limits and every prior content of the transposition,
\* killer and history tables, search_go returns a best_move that is not the
\* no-move sentinel and that is a legal move of the root position
C1_ReturnsLegalMove ==
    (SearchReturned /\ LegalMoves(last.before) # {}) =>
        /\ last.result.best_move.from # SQ_NONE
        /\ last.result.best_move \in LegalMoves(last.before)

\* what search_go does return: the sentinel or a legal move of the root
C1_SentinelOrLegalMove ==
    SearchReturned =>
        \/ last.result.best_move = MOVE_NONE
        \/ last.result.best_move \in LegalMoves(last.before)

\* the fields of the position that search_go is to leave alone
PositionFields(b) ==
    [squares |-> b.squares, side |-> b.side, castling |-> b.castling,
     ep_square |-> b.ep_square, halfmove |-> b.halfmove, fullmove |-> b.fullmove,
     hash |-> b.hash, pawn_hash |-> b.pawn_hash, lock |-> b.lock]

\* C4: when search_go returns, whether all iterations completed or the search
\* was stopped at an arbitrary node, including inside a null-move subtree or
\* inside quiescence, squares, side, castling, ep_square, halfmove, fullmove,
\* hash, pawn_hash and lock of the board equal their values at the call
C4_SearchLeavesPosition ==
    SearchReturned => PositionFields(board) = PositionFields(last.before)

\* search_go returned from a search stopped in quiescence below a null move
C4_Witness ==
    /\ SearchReturned
    /\ search.search_stopped
    /\ search.stopped_in.null
    /\ search.stopped_in.kind = "quiescence"
    /\ PositionFields(board) = PositionFields(last.before)

\* search_go returned from a stopped search, move variance off
StoppedReturn ==
    SearchReturned /\ search.search_stopped /\ search.limits.move_variance = 0

\* the result is the one of the last committed iteration
ReturnsCommitted ==
    /\ last.result.best_move = search.committed.best_move
    /\ last.result.score = search.committed.score
    /\ last.result.depth = search.committed.depth

\* C5 as stated: if the stop flag is set during an iteration (move variance
\* off), the returned best move, score and depth are those committed by the
\* last iteration that completed without a stop, and only when no iteration
\* was ever committed is the first legal root move returned, with depth 0
C5_StoppedReturnsCommittedOrFirstMove ==
    StoppedReturn =>
        IF search.committed.best_move.from # SQ_NONE THEN ReturnsCommitted
        ELSE /\ last.result.best_move = search.first_root_move
             /\ last.result.depth = 0

\* C5 amended: if the stop flag is set during an iteration (move variance
\* off), the returned best move, score and depth are those committed by the
\* last iteration that completed without a stop; only when no iteration was
\* ever committed does the result come from the stopped iteration: the move is
\* the one recorded in search_best_root_move, a legal root move as soon as the
\* root has made its first legal move and the sentinel before that, with
\* score 0 and depth 0
C5_StoppedReturnsCommittedOrRecordedMove ==
    StoppedReturn =>
        IF search.committed.best_move.from # SQ_NONE THEN ReturnsCommitted
        ELSE /\ last.result.best_move = search.search_best_root_move
             /\ last.result.score = 0
             /\ last.result.depth = 0
             /\ (last.result.best_move = MOVE_NONE) = (search.first_root_move = MOVE_NONE)
             /\ \/ last.result.best_move = MOVE_NONE
                \/ last.result.best_move \in LegalMoves(last.before)

\* a stopped iteration had recorded a root move other than the one committed
\* before it, and search_go returned the committed result
C5_Witness ==
    /\ StoppedReturn
    /\ search.committed.best_move.from # SQ_NONE
    /\ search.search_best_root_move.from # SQ_NONE
    /\ search.search_best_root_move # search.committed.best_move
    /\ ReturnsCommitted

\* C6: every call of search_go returns after finitely many nodes: the
\* iterative-deepening loop cannot iterate forever. On a finite run: the loop
\* body is entered once for each depth from 1 to max_depth at most, and once
\* more for each retry
C6_LoopIsBounded == search.passes <= search.max_depth + search.retries

\* ------------------------------------------------------------------------
\* Transposition-table specification: a caller clears, stores and probes
\* ------------------------------------------------------------------------

\* calls of tt.c in a run
MaxTtCalls == 3

\* 0 and 4096 share slot 0; 1 has slot 1
TtHashes == { {}, {12}, {0} }

TtLocks == { {}, {0} }

TtEntries ==
    { [score |-> 120, best_move |-> 0, depth |-> 3, flag |-> TT_EXACT],
      [score |-> -28990, best_move |-> 3128, depth |-> 1, flag |-> TT_BETA],
      [score |-> 35, best_move |-> 0, depth |-> 2, flag |-> TT_NONE] }

TtCall(op, hash, lock, entry, result) ==
    [op |-> op, hash |-> hash, lock |-> lock, entry |-> entry, result |-> result]

\* tt_clear and nothing else done
TtInit ==
    /\ uint_bits \in {24, 32}
    /\ board = board_init
    /\ undo_stack = << >>
    /\ pos_history = search_history_clear
    /\ last = [NoCall EXCEPT !.op = "tt_clear"]
    /\ steps = 0
    /\ game = << >>
    /\ tt = tt_clear
    /\ pawn_cache = pawn_cache_init
    /\ search = search_init
    /\ calls = << >>

TtClear ==
    /\ Len(calls) < MaxTtCalls
    /\ tt' = tt_clear
    /\ calls' = Append(calls, TtCall("tt_clear", {}, {}, << >>, << >>))
    /\ last' = [NoCall EXCEPT !.op = "tt_clear"]
    /\ UNCHANGED <<uint_bits, board, undo_stack, pos_history, steps, game, pawn_cache, search>>

\* the hash arrives as a zhash_t
TtStore ==
    /\ Len(calls) < MaxTtCalls
    /\ \E hash \in TtHashes, lock \in TtLocks, e \in TtEntries :
          /\ tt' = tt_store(tt, Low(hash, uint_bits), lock, e.score, e.best_move, e.depth,
                            e.flag)
          /\ calls' = Append(calls, TtCall("tt_store", hash, lock, e, << >>))
    /\ last' = [NoCall EXCEPT !.op = "tt_store"]
    /\ UNCHANGED <<uint_bits, board, undo_stack, pos_history, steps, game, pawn_cache, search>>

TtProbe ==
    /\ Len(calls) < MaxTtCalls
    /\ \E hash \in TtHashes, lock \in TtLocks :
          /\ calls' = Append(calls, TtCall("tt_probe", hash, lock, << >>,
                                           tt_probe(tt, Low(hash, uint_bits), lock)))
          /\ last' = [NoCall EXCEPT !.op = "tt_probe",
                                    !.result = tt_probe(tt, Low(hash, uint_bits), lock)]
    /\ UNCHANGED <<uint_bits, board, undo_stack, pos_history, steps, game, tt, pawn_cache,
                   search>>

TtNext ==
    \/ TtClear
    \/ TtStore
    \/ TtProbe

SpecTT == TtInit /\ [][TtNext]_vars

\* hash mod table size
SlotOf(hash) == ToNat(hash) % TT_SIZE

\* the most recent store to the slot among the first n calls, 0 if the slot
\* was not stored to since the table was last cleared
LastStore(n, slot) ==
    LET stores == {k \in 1..n :
                      /\ calls[k].op = "tt_store"
                      /\ SlotOf(calls[k].hash) = slot
                      /\ \A c \in (k + 1)..n : calls[c].op # "tt_clear"}
    IN IF stores = {} THEN 0 ELSE CHOOSE k \in stores : \A o \in stores : o <= k

\* what the claim expects of a probe that follows the store k (0: none)
ProbeExpected(k, lock) ==
    IF k = 0 \/ calls[k].entry.flag = TT_NONE \/ calls[k].lock # lock THEN [hit |-> FALSE]
    ELSE [hit |-> TRUE, score |-> calls[k].entry.score,
          best_move |-> calls[k].entry.best_move, depth |-> calls[k].entry.depth,
          flag |-> calls[k].entry.flag]

\* C11: tt_probe(hash, lock) reports a hit, returning the score, packed move,
\* depth and bound of slot hash mod table size, if and only if the bound kind
\* of the slot is not none and its lock equals the supplied lock; tt_store
\* always overwrites its slot, so a probe observes exactly the most recent
\* store to that slot
C11_ProbeObservesLastStore ==
    \A j \in 1..Len(calls) :
        calls[j].op = "tt_probe" =>
            calls[j].result = ProbeExpected(LastStore(j - 1, SlotOf(calls[j].hash)),
                                            calls[j].lock)

\* a probe hits the second of two stores to one slot, made under different
\* hashes, the first of them the deeper one
C11_Witness ==
    /\ Len(calls) = 3
    /\ calls[1].op = "tt_store" /\ calls[2].op = "tt_store" /\ calls[3].op = "tt_probe"
    /\ calls[1].hash # calls[2].hash
    /\ SlotOf(calls[1].hash) = SlotOf(calls[2].hash)
    /\ calls[1].entry.depth > calls[2].entry.depth
    /\ calls[3].hash = calls[1].hash
    /\ calls[3].result.hit
    /\ calls[3].result.score = calls[2].entry.score

\* ------------------------------------------------------------------------
\* Mate-score specification: a node stores a mate score, nodes of the same
\* position at other plies probe it
\* ------------------------------------------------------------------------

\* the mate scores a node at the given ply can hold for storing: a mate at
\* ply p is scored -SCORE_MATE + p where it is found, below MAX_PLY and below
\* the node, and negated at every level on the way up
MateScoresAt(ply) ==
    {-SCORE_MATE + p : p \in (ply + 1)..(MAX_PLY - 1)}
        \cup {SCORE_MATE - p : p \in (ply + 1)..(MAX_PLY - 1)}

\* calls of a run: a store and a probe
MaxMateCalls == 2

MateInit ==
    /\ uint_bits \in {24, 32}
    /\ board = board_init
    /\ undo_stack = << >>
    /\ pos_history = search_history_clear
    /\ last = [NoCall EXCEPT !.op = "tt_clear"]
    /\ steps = 0
    /\ game = << >>
    /\ tt = tt_clear
    /\ pawn_cache = pawn_cache_init
    /\ search = search_init
    /\ calls = << >>

\* the end of negamax at the first node of the position to get there, at some
\* ply and with a mate score as its best score
MateStore ==
    /\ steps < MaxMateCalls
    /\ calls = << >>
    /\ steps' = steps + 1
    /\ \E ply \in 0..(MAX_PLY - 1), depth \in {1} :
       \E best_score \in MateScoresAt(ply) :
          /\ tt' = tt_store(tt, board.hash, board.lock, StoreScore(best_score, ply), 0, depth,
                            TT_EXACT)
          /\ calls' = << [NoCall EXCEPT !.op = "tt_store", !.arg = ply,
                                        !.result = best_score] >>
          /\ last' = [NoCall EXCEPT !.op = "tt_store", !.arg = ply]
          /\ UNCHANGED <<uint_bits, board, undo_stack, pos_history, game, pawn_cache,
                         search>>

\* the probe of negamax at a node of the same position at some ply: the
\* score it goes on with
MateProbe ==
    /\ steps < MaxMateCalls
    /\ steps' = steps + 1
    /\ \E ply \in 0..(MAX_PLY - 1) :
       /\ last' = [NoCall EXCEPT
                       !.op = "tt_probe", !.arg = ply,
                       !.result = IF tt_probe(tt, board.hash, board.lock).hit
                                  THEN <<TtScore(tt_probe(tt, board.hash, board.lock).score,
                                                 ply)>>
                                  ELSE << >>]
       /\ UNCHANGED <<uint_bits, board, undo_stack, pos_history, game, tt, pawn_cache,
                      search, calls>>

MateNext ==
    \/ MateStore
    \/ MateProbe

SpecMate == MateInit /\ [][MateNext]_vars

\* plies from a node at the given ply to the mate its score encodes
PliesToMate(score, ply) == (SCORE_MATE - (IF score < 0 THEN -score ELSE score)) - ply

\* C12: a mate score found at ply A and stored, when probed for the same
\* position at ply B, yields the score of the same sign that encodes the same
\* number of plies from the probing node to the mate
C12_MateDistanceFollowsPly ==
    (last.op = "tt_probe" /\ calls # << >>) =>
        /\ Len(last.result) = 1
        /\ (last.result[1] < 0) = (calls[1].result < 0)
        /\ PliesToMate(last.result[1], last.arg) = PliesToMate(calls[1].result, calls[1].arg)

\* a lost mate stored deep in the tree is probed nearer the root
C12_Witness ==
    /\ last.op = "tt_probe"
    /\ calls # << >>
    /\ calls[1].arg = 40
    /\ calls[1].result = -SCORE_MATE + 45
    /\ last.arg = 3
    /\ last.result = <<-SCORE_MATE + 8>>

\* ------------------------------------------------------------------------
\* Move-packing specification: a move is packed for the table and unpacked
\* ------------------------------------------------------------------------

\* the flag bytes the generator writes, and bytes it never writes: promotion
\* kind bits without the promotion flag, every bit set
PackFlags ==
    {0, FLAG_CAPTURE, FLAG_CASTLE, FLAG_CAPTURE + FLAG_EN_PASSANT, FLAG_DOUBLE_PUSH}
        \cup {FLAG_PROMOTION + k + c : k \in {0, FLAG_PROMO_R, FLAG_PROMO_B, FLAG_PROMO_N},
                                       c \in {0, FLAG_CAPTURE}}
        \cup {FLAG_PROMO_R, FLAG_PROMO_N + FLAG_CAPTURE, 255}

PackMoves ==
    {[from |-> f, to |-> t, flags |-> fl] :
        f \in {s \in 0..127 : SQ_VALID(s)}, t \in {s \in 0..127 : SQ_VALID(s)},
        fl \in PackFlags}

\* a move in hand
PackInit ==
    /\ uint_bits \in {32}
    /\ board = board_init
    /\ undo_stack = << >>
    /\ pos_history = search_history_clear
    /\ \E m \in PackMoves : last = [NoCall EXCEPT !.op = "move", !.m = m]
    /\ steps = 0
    /\ game = << >>
    /\ tt = tt_clear
    /\ pawn_cache = pawn_cache_init
    /\ search = search_init
    /\ calls = << >>

PackMove ==
    /\ last.op = "move"
    /\ last' = [last EXCEPT !.op = "tt_pack_move", !.arg = tt_pack_move(last.m)]
    /\ UNCHANGED <<uint_bits, board, undo_stack, pos_history, steps, game, tt, pawn_cache,
                   search, calls>>

UnpackMove ==
    /\ last.op = "tt_pack_move"
    /\ last' = [last EXCEPT !.op = "tt_unpack_move", !.result = tt_unpack_move(last.arg)]
    /\ UNCHANGED <<uint_bits, board, undo_stack, pos_history, steps, game, tt, pawn_cache,
                   search, calls>>

PackNext ==
    \/ PackMove
    \/ UnpackMove

SpecPack == PackInit /\ [][PackNext]_vars

\* C13: the move unpacked from the packing of a move m with on-board squares
\* has the from square and the to square of m, the promotion flag of m and,
\* for a promotion, the promotion kind of m; every other flag bit is clear
C13_UnpackOfPackKeepsMove ==
    last.op = "tt_unpack_move" =>
        /\ last.result.from = last.m.from
        /\ last.result.to = last.m.to
        /\ HasFlag(last.result.flags, FLAG_PROMOTION) = HasFlag(last.m.flags, FLAG_PROMOTION)
        /\ HasFlag(last.m.flags, FLAG_PROMOTION) =>
               PromoMask(last.result.flags) = PromoMask(last.m.flags)
        /\ last.result.flags =
               (IF HasFlag(last.m.flags, FLAG_PROMOTION)
                THEN FLAG_PROMOTION + PromoMask(last.m.flags) ELSE 0)

\* a capturing promotion to a knight from g7 to h8 went through the packing
C13_Witness ==
    /\ last.op = "tt_unpack_move"
    /\ last.m = [from |-> 22, to |-> 7, flags |-> FLAG_PROMOTION + FLAG_PROMO_N + FLAG_CAPTURE]
    /\ last.arg = 14 + 64 * 7 + 4096 + 3 * 8192
    /\ last.result = [from |-> 22, to |-> 7, flags |-> FLAG_PROMOTION + FLAG_PROMO_N]

\* ------------------------------------------------------------------------
\* Board specification: the piece lists
\* ------------------------------------------------------------------------

\* the squares of the board that hold a piece of the side
OccupiedBy(b, side) ==
    {sq \in 0..127 : SQ_VALID(sq) /\ b.squares[sq] # PIECE_NONE /\ OwnPiece(b.squares[sq], side)}

PieceListConsistent(b, side) ==
    /\ b.piece_count[side] <= 16
    /\ \A sq \in OccupiedBy(b, side) :
          /\ b.piece_index[sq] < b.piece_count[side]
          /\ b.piece_list[side][b.piece_index[sq]] = sq
    /\ {b.piece_list[side][i] : i \in 0..(b.piece_count[side] - 1)} = OccupiedBy(b, side)
    /\ \A i, j \in 0..(b.piece_count[side] - 1) :
          b.piece_list[side][i] = b.piece_list[side][j] => i = j

\* C14: after board_set_from_ui and any sequence of board_make and
\* board_unmake of generated moves, every occupied square of a side has a
\* piece_index below the side's piece_count that leads back to the square,
\* the first piece_count entries of the side's list are exactly its occupied
\* squares, none twice, and piece_count is at most 16
C14_PieceListConsistent ==
    \A side \in {WHITE, BLACK} : PieceListConsistent(board, side)

\* a capture was made and unmade and left the list of the captured side in
\* another order than before
C14_Witness ==
    /\ last.op = "board_unmake"
    /\ HasFlag(last.m.flags, FLAG_CAPTURE)
    /\ board.piece_list # last.before.piece_list
    /\ board.squares = last.before.squares

\* ------------------------------------------------------------------------
\* Castling specification: the generator on positions around the home rank
\* ------------------------------------------------------------------------

\* the UI board with the king of the side (sg = 1 white, -1 black) on file kf
\* of its home rank, the pieces qa and ka on the a and h corners, an own
\* knight on file bf of the home rank (8: none), an enemy rook four ranks up
\* on file af (8: none) and the enemy king on the far h corner
CastleRows(sg, kf, qa, ka, bf, af) ==
    LET hr == IF sg = 1 THEN 7 ELSE 0
        ar == IF sg = 1 THEN 3 ELSE 4
    IN [r \in 1..8 |-> [c \in 1..8 |->
           IF r - 1 = hr /\ c - 1 = kf THEN 6 * sg
           ELSE IF r - 1 = hr /\ c - 1 = 0 THEN qa
           ELSE IF r - 1 = hr /\ c - 1 = 7 THEN ka
           ELSE IF r - 1 = hr /\ c - 1 = bf THEN 2 * sg
           ELSE IF r - 1 = ar /\ c - 1 = af THEN -4 * sg
           ELSE IF r - 1 = 7 - hr /\ c - 1 = 7 THEN -6 * sg
           ELSE 0]]

CastlePositions ==
    {UiPos(CastleRows(sg, kf, qa, ka, bf, af), sg, castling, 255, 255, 0, 1) :
        sg \in {1, -1}, kf \in {4, 3}, qa \in {4, 0, -4}, ka \in {4, 0, -4},
        bf \in {1, 2, 5, 6, 8}, af \in {1, 2, 3, 4, 5, 6, 8},
        castling \in {0, 5, 10, 15}}

CastleInit ==
    /\ uint_bits \in {32}
    /\ \E p \in CastlePositions : board = SetFromUi(p, uint_bits)
    /\ undo_stack = << >>
    /\ pos_history = search_history_clear
    /\ last = [NoCall EXCEPT !.op = "board_set_from_ui"]
    /\ steps = 0
    /\ game = << >>
    /\ tt = tt_clear
    /\ pawn_cache = pawn_cache_init
    /\ search = search_init
    /\ calls = << >>

CastleGenerate ==
    /\ last.op = "board_set_from_ui"
    /\ \E mode \in {GEN_ALL, GEN_CAPTURES, GEN_QUIETS} :
          last' = [NoCall EXCEPT !.op = "generate_moves", !.arg = mode,
                                 !.result = generate_moves(board, mode)]
    /\ UNCHANGED <<uint_bits, board, undo_stack, pos_history, steps, game, tt, pawn_cache,
                   search, calls>>

CastleNext == CastleGenerate

SpecCastle == CastleInit /\ [][CastleNext]_vars

\* the home square of the king of a side
KingHome(side) == IF side = WHITE THEN 116 ELSE 4

\* wing 1 is the king's wing, -1 the queen's
CastleRight(side, wing) ==
    IF side = WHITE THEN (IF wing = 1 THEN CASTLE_WK ELSE CASTLE_WQ)
    ELSE (IF wing = 1 THEN CASTLE_BK ELSE CASTLE_BQ)

\* what the claim asks of a position for the side to castle on the wing
MayCastle(b, side, wing) ==
    LET e == KingHome(side)
        corner == IF wing = 1 THEN e + 3 ELSE e - 4
        colour == IF side = WHITE THEN COLOR_WHITE ELSE COLOR_BLACK
    IN /\ HasFlag(b.castling, CastleRight(side, wing))
       /\ b.squares[e] = MAKE_PIECE(colour, PIECE_KING)
       /\ b.squares[corner] = MAKE_PIECE(colour, PIECE_ROOK)
       /\ \A s \in 0..127 :
             ((e < s /\ s < corner) \/ (corner < s /\ s < e)) => b.squares[s] = PIECE_NONE
       /\ \A s \in {e, e + wing, e + 2 * wing} : ~is_square_attacked(b, s, 1 - side)

CastleEmitted(moves, side, wing) ==
    \E i \in 1..Len(moves) :
        moves[i] = [from |-> KingHome(side), to |-> KingHome(side) + 2 * wing,
                    flags |-> FLAG_CASTLE]

\* C15: the generator, asked for all moves or for the quiet moves, emits the
\* castling move of the side to move on a wing if and only if the right is
\* set, the king is on its home square, the side's rook is on the home corner
\* of the wing, every square between king and rook is empty and none of the
\* king's current, pass-through and destination squares is attacked by the
\* opponent; it emits no other move with the castling flag
C15_CastlingEmittedIffAllowed ==
    (last.op = "generate_moves" /\ last.arg # GEN_CAPTURES) =>
        /\ \A wing \in {1, -1} :
              CastleEmitted(last.result, board.side, wing) = MayCastle(board, board.side, wing)
        /\ \A i \in 1..Len(last.result) :
              HasFlag(last.result[i].flags, FLAG_CASTLE) =>
                  \E wing \in {1, -1} :
                      last.result[i] = [from |-> KingHome(board.side),
                                        to |-> KingHome(board.side) + 2 * wing,
                                        flags |-> FLAG_CASTLE]

\* black may castle on the queen's wing while b8 is attacked, and not on the
\* king's wing, where all is in place but the right
C15_Witness ==
    /\ last.op = "generate_moves"
    /\ last.arg = GEN_ALL
    /\ board.side = BLACK
    /\ board.castling = 10
    /\ is_square_attacked(board, 1, WHITE)
    /\ board.squares[7] = MAKE_PIECE(COLOR_BLACK, PIECE_ROOK)
    /\ board.squares[5] = PIECE_NONE /\ board.squares[6] = PIECE_NONE
    /\ CastleEmitted(last.result, BLACK, -1)
    /\ ~CastleEmitted(last.result, BLACK, 1)

\* ------------------------------------------------------------------------
\* Board specification: castling rights, clocks and the en passant square
\* ------------------------------------------------------------------------

\* the home squares of the king and of the rook of a castling right
RightSquares(right) ==
    CASE right = CASTLE_WK -> {116, 119}
      [] right = CASTLE_WQ -> {116, 112}
      [] right = CASTLE_BK -> {4, 7}
      [] right = CASTLE_BQ -> {4, 0}

\* C16: after board_make(m) the castling rights are a subset of the rights
\* before it, and a right that was set is cleared exactly when m.from or m.to
\* is the home square of its king or the home corner of its rook
C16_RightsClearedOnHomeSquares ==
    last.op = "board_make" =>
        \A right \in {CASTLE_WK, CASTLE_WQ, CASTLE_BK, CASTLE_BQ} :
            /\ HasFlag(board.castling, right) => HasFlag(last.before.castling, right)
            /\ HasFlag(last.before.castling, right) =>
                   (~HasFlag(board.castling, right)
                       <=> (last.m.from \in RightSquares(right)
                               \/ last.m.to \in RightSquares(right)))

\* the rook of a1 takes the rook of a8: the queen's wing rights of both sides
\* go, the king's wing rights stay
C16_Witness ==
    /\ last.op = "board_make"
    /\ last.m = [from |-> 112, to |-> 0, flags |-> FLAG_CAPTURE]
    /\ last.before.castling = 15
    /\ board.castling = CASTLE_WK + CASTLE_BK

\* the squares of the board that hold a piece
Occupied(b) == OccupiedBy(b, WHITE) \cup OccupiedBy(b, BLACK)

\* C17: board_make sets the halfmove clock to 0 exactly when the moved piece
\* is a pawn or the move takes a piece off the board; otherwise the clock
\* goes up by one, except that a clock at 255 stays at 255
C17_HalfmoveClock ==
    last.op = "board_make" =>
        IF \/ PIECE_TYPE(last.before.squares[last.m.from]) = PIECE_PAWN
           \/ Cardinality(Occupied(board)) < Cardinality(Occupied(last.before))
        THEN board.halfmove = 0
        ELSE /\ board.halfmove # 0
             /\ board.halfmove = (IF last.before.halfmove = 255 THEN 255
                                  ELSE last.before.halfmove + 1)

\* a quiet move of a piece on a clock of 255
C17_Witness ==
    /\ last.op = "board_make"
    /\ last.before.halfmove = 255
    /\ board.halfmove = 255
    /\ last.m.flags = 0

\* ------------------------------------------------------------------------
\* Search specification: the en passant square at the nodes of the tree
\* ------------------------------------------------------------------------

\* the move m, made, was a pawn's move of two ranks; b is the board after it
DoublePush(b, m) ==
    /\ PIECE_TYPE(b.squares[m.to]) = PIECE_PAWN
    /\ (m.to = m.from + 32 \/ m.from = m.to + 32)

\* the frame whose call the running frame is
Caller == search.frames[Len(search.frames) - 1]

\* the running frame is at its own node: it has a caller and no call of its
\* own has returned that it has yet to take back
AtNode ==
    /\ Len(search.frames) >= 2
    /\ TopFrame(search).pc \notin {"ret", "null_ret"}

\* C18: at a node the search reached by board_make(m) the en passant square
\* is set if and only if m is a double pawn push, and then it is the square
\* the pawn passed over; at a node reached by a null move it is none
C18_EpSquareOnlyAfterDoublePush ==
    AtNode =>
        /\ Caller.pc = "ret" =>
              board.ep_square = (IF DoublePush(board, Caller.m)
                                 THEN (Caller.m.from + Caller.m.to) \div 2 ELSE SQ_NONE)
        /\ Caller.pc = "null_ret" => board.ep_square = SQ_NONE

\* a null move answers a double pawn push: the square set by the push is
\* none at the node behind the null move
C18_Witness ==
    /\ AtNode
    /\ Len(search.frames) >= 3
    /\ Caller.pc = "null_ret"
    /\ Caller.null.old_ep = 80
    /\ search.frames[Len(search.frames) - 2].m = [from |-> 96, to |-> 64,
                                                  flags |-> FLAG_DOUBLE_PUSH]
    /\ board.ep_square = SQ_NONE

\* ------------------------------------------------------------------------
\* Board specification: the game-phase counter
\* ------------------------------------------------------------------------

\* C19: in every position reached by board_make from a set position of phase
\* at most 24, promotions included, the phase counter of the board is within
\* [0, 24]
C19_PhaseWithin24 ==
    0 <= board.phase /\ board.phase <= PHASE_MAX

\* the phase weights of the pieces that the promotions made and not taken
\* back have put on the board
RECURSIVE PromotedWeight(_)
PromotedWeight(stack) ==
    IF stack = << >> THEN 0
    ELSE (IF HasFlag(stack[Len(stack)].m.flags, FLAG_PROMOTION)
          THEN PW(EVAL_INDEX(PromoType(stack[Len(stack)].m.flags))) ELSE 0)
         + PromotedWeight(SubSeq(stack, 1, Len(stack) - 1))

\* C19: the phase counter is the sum of the phase weights of the pieces on
\* the board; a promotion adds the weight of the new piece, so the counter
\* is at most 24 plus the weights of the promoted pieces and exceeds 24 when
\* a pawn promotes with the material of the starting position on the board
C19_PhaseIsWeightOfPieces ==
    /\ board.phase = recompute_eval(board).ph
    /\ 0 <= board.phase
    /\ board.phase <= PHASE_MAX + PromotedWeight(undo_stack)

\* a pawn became a queen beside every piece of the starting position
C19_Witness ==
    /\ last.op = "board_make"
    /\ HasFlag(last.m.flags, FLAG_PROMOTION)
    /\ last.before.phase = PHASE_MAX
    /\ board.phase = PHASE_MAX + 4

\* ------------------------------------------------------------------------
\* Evaluation specification: a caller sets positions up and evaluates them;
\* the pawn cache lives as long as the program
\* ------------------------------------------------------------------------

\* evaluate calls in a run
MaxEvals == 6

EvalPositions ==
    <<
       \* 4k3/P7/1P6/8/8/7P/P7/4K3 w: white a7, b6, h3, a2
       UiPos(<< <<0, 0, 0, 0, -6, 0, 0, 0>>, <<1, 0, 0, 0, 0, 0, 0, 0>>, <<0, 1, 0, 0, 0, 0, 0, 0>>, EmptyRow,
                EmptyRow, <<0, 0, 0, 0, 0, 0, 0, 1>>, <<1, 0, 0, 0, 0, 0, 0, 0>>, <<0, 0, 0, 0, 6, 0, 0, 0>> >>,
             1, 0, 255, 255, 0, 1),
       \* 4k3/8/7p/8/2p5/8/p5P1/4K3 w: the same pawn_hash as the position before: white g2, black h6, c4, a2
       UiPos(<< <<0, 0, 0, 0, -6, 0, 0, 0>>, EmptyRow, <<0, 0, 0, 0, 0, 0, 0, -1>>, EmptyRow,
                <<0, 0, -1, 0, 0, 0, 0, 0>>, EmptyRow, <<-1, 0, 0, 0, 0, 0, 1, 0>>, <<0, 0, 0, 0, 6, 0, 0, 0>> >>,
             1, 0, 255, 255, 0, 1),
       \* 4k3/8/8/8/8/8/8/4K3 w: no pawn: pawn_hash 0, the key of a zero-filled entry
       UiPos(<< <<0, 0, 0, 0, -6, 0, 0, 0>>, EmptyRow, EmptyRow, EmptyRow,
                EmptyRow, EmptyRow, EmptyRow, <<0, 0, 0, 0, 6, 0, 0, 0>> >>,
             1, 0, 255, 255, 0, 1),
       \* 4k3/8/8/P7/8/8/8/4K3 w: four more structures of cache set 6
       UiPos(<< <<0, 0, 0, 0, -6, 0, 0, 0>>, EmptyRow, EmptyRow, <<1, 0, 0, 0, 0, 0, 0, 0>>,
                EmptyRow, EmptyRow, EmptyRow, <<0, 0, 0, 0, 6, 0, 0, 0>> >>,
             1, 0, 255, 255, 0, 1),
       \* 4k3/8/8/8/8/P7/8/4K3 w
       UiPos(<< <<0, 0, 0, 0, -6, 0, 0, 0>>, EmptyRow, EmptyRow, EmptyRow,
                EmptyRow, <<1, 0, 0, 0, 0, 0, 0, 0>>, EmptyRow, <<0, 0, 0, 0, 6, 0, 0, 0>> >>,
             1, 0, 255, 255, 0, 1),
       \* 4k3/8/8/3p4/8/8/8/4K3 w
       UiPos(<< <<0, 0, 0, 0, -6, 0, 0, 0>>, EmptyRow, EmptyRow, <<0, 0, 0, -1, 0, 0, 0, 0>>,
                EmptyRow, EmptyRow, EmptyRow, <<0, 0, 0, 0, 6, 0, 0, 0>> >>,
             1, 0, 255, 255, 0, 1),
       \* 4k3/8/8/8/2p5/8/8/4K3 w
       UiPos(<< <<0, 0, 0, 0, -6, 0, 0, 0>>, EmptyRow, EmptyRow, EmptyRow,
                <<0, 0, -1, 0, 0, 0, 0, 0>>, EmptyRow, EmptyRow, <<0, 0, 0, 0, 6, 0, 0, 0>> >>,
             1, 0, 255, 255, 0, 1),
       \* 4k3/4P1p1/8/p4P2/8/P7/8/4K3 w: the low 24 bits of the pawn keys cancel: white e7, f5, a3, black g7, a5
       UiPos(<< <<0, 0, 0, 0, -6, 0, 0, 0>>, <<0, 0, 0, 0, 1, 0, -1, 0>>, EmptyRow, <<-1, 0, 0, 0, 0, 1, 0, 0>>,
                EmptyRow, <<1, 0, 0, 0, 0, 0, 0, 0>>, EmptyRow, <<0, 0, 0, 0, 6, 0, 0, 0>> >>,
             1, 0, 255, 255, 0, 1) >>

EvalInit ==
    /\ uint_bits \in {24, 32}
    /\ board = board_init
    /\ undo_stack = << >>
    /\ pos_history = search_history_clear
    /\ last = NoCall
    /\ steps = 0
    /\ game = << >>
    /\ tt = tt_clear
    /\ pawn_cache = pawn_cache_init
    /\ search = search_init
    /\ calls = << >>

EvalSetPosition ==
    /\ last.op # "board_set_from_ui"
    /\ steps < MaxEvals
    /\ \E i \in 1..Len(EvalPositions) : board' = SetFromUi(EvalPositions[i], uint_bits)
    /\ last' = [NoCall EXCEPT !.op = "board_set_from_ui"]
    /\ UNCHANGED <<uint_bits, undo_stack, pos_history, steps, game, tt, pawn_cache, search,
                   calls>>

\* evaluate(b): last.before keeps the cache the call found
Evaluate ==
    /\ last.op = "board_set_from_ui"
    /\ steps < MaxEvals
    /\ steps' = steps + 1
    /\ \E oob \in BehindPawnAtk(board) :
          /\ pawn_cache' = evaluate(board, pawn_cache, oob, uint_bits).cache
          /\ last' = [NoCall EXCEPT
                          !.op = "evaluate", !.before = pawn_cache,
                          !.result = <<evaluate(board, pawn_cache, oob, uint_bits).score>>]
    /\ UNCHANGED <<uint_bits, board, undo_stack, pos_history, game, tt, search, calls>>

EvalNext ==
    \/ EvalSetPosition
    \/ Evaluate

SpecEval == EvalInit /\ [][EvalNext]_vars

\* the value of b computed with a freshly built pawn-structure entry
FreshScore(b) == EvalScore(b, EvalTerms(b, build_pawn_cache(b, uint_bits), FALSE))

\* C20: whatever evaluate calls came before (hits, misses, rebuilds into the
\* victim way, evictions, the zero-filled cache), the value evaluate returns
\* for a board is the value computed with a freshly built pawn-structure
\* entry for that board
C20_EvaluateIndependentOfCache ==
    last.op = "evaluate" => last.result[1] = FreshScore(board)

\* the cache holds, under the pawn_hash of b, an entry that was built for
\* other pawns or never built
ForeignEntry(cache, b) ==
    \E i \in 0..(PAWN_CACHE_SIZE - 1) :
        /\ cache.slots[i].key = b.pawn_hash
        /\ \/ cache.slots[i].w_pawns # build_pawn_cache(b, uint_bits).w_pawns
           \/ cache.slots[i].b_pawns # build_pawn_cache(b, uint_bits).b_pawns

\* evaluate returns the value of the fresh entry unless the cache it finds
\* holds the entry of other pawns under the pawn_hash of the board
EvaluateIndependentUnlessKeysCollide ==
    (last.op = "evaluate" /\ ~ForeignEntry(last.before, board)) =>
        last.result[1] = FreshScore(board)

\* a fifth structure of a set came in over the first, and the first is
\* evaluated again
EvictedAndRebuilt ==
    /\ last.op = "evaluate"
    /\ steps = MaxEvals
    /\ ~ForeignEntry(last.before, board)
    /\ \A k \in 0..(PAWN_CACHE_WAYS - 1) :
          /\ last.before.slots[6 * PAWN_CACHE_WAYS + k].key # {}
          /\ last.before.slots[6 * PAWN_CACHE_WAYS + k].key # board.pawn_hash
    /\ last.before.victim[6] = 1
    /\ last.result[1] = FreshScore(board)

\* the first evaluate of a run, on the 24-bit build, of pawns whose pawn_hash
\* is 0: it hits the zero-filled entry
ZeroEntryHit ==
    /\ last.op = "evaluate"
    /\ steps = 1
    /\ uint_bits = 24
    /\ board.pawn_hash = {}
    /\ PiecesOf(board, WHITE, PIECE_PAWN) # {}
    /\ last.result[1] # FreshScore(board)

\* ---------------------------------------------------------------------
\* C21: the move pool is a stack
\* ---------------------------------------------------------------------

\* move_sp as the k lowest calls of the stack leave it to the call above
\* them: base + count of the nearest call that is iterating its moves, 0
\* when there is none
RECURSIVE PoolTop(_, _)
PoolTop(frames, k) ==
    IF k = 0 THEN 0
    ELSE IF frames[k].pc \in {"loop", "ret"} THEN frames[k].base + frames[k].count
    ELSE PoolTop(frames, k - 1)

\* the pool slots (counted from 1) written by a step
PoolWrites ==
    {j \in 1..Len(search'.pool) : j > Len(search.pool) \/ search'.pool[j] # search.pool[j]}

PoolDiscipline ==
    /\ search.move_sp = Len(search.pool)
    /\ search.move_sp <= MOVE_POOL_SIZE
    /\ search.pc = "tree" =>
        /\ search.move_sp = PoolTop(search.frames, Len(search.frames))
        /\ \A k \in 1..Len(search.frames) :
              search.frames[k].pc \in {"loop", "ret"} =>
                  search.frames[k].base = PoolTop(search.frames, k - 1)
    /\ search.pc # "tree" => search.move_sp = 0

RECURSIVE WalkReads(_, _, _)
WalkReads(b, target, dir) ==
    IF SquaresAt(b, target) = PIECE_NONE
    THEN {target} \cup WalkReads(b, Step(target, dir), dir)
    ELSE {target}

\* one direction of the slider loop of compute_legal_info: the walk from
\* the king and, behind a friendly piece, the walk from that piece
RayReads(b, king_sq, dir, attacker_color, first) ==
    WalkReads(b, Step(king_sq, dir), dir)
    \cup (IF SQ_VALID(first) /\ PIECE_COLOR(b.squares[first]) # attacker_color
          THEN WalkReads(b, Step(first, dir), dir) ELSE {})

LegalInfoReads(b) ==
    UNION {RayReads(b, b.king_sq[b.side], king_offsets[i],
                    IF 1 - b.side = WHITE THEN COLOR_WHITE ELSE COLOR_BLACK,
                    WalkEmpty(b, Step(b.king_sq[b.side], king_offsets[i]), king_offsets[i]))
           : i \in 1..8}

\* compute_legal_info has run on the board of the node
LegalInfoComputed ==
    /\ search.pc = "tree"
    /\ TopFrame(search).pc = "gen"
    /\ TopFrame(search).linfo = compute_legal_info(board)

\* C22: the sliding loops of compute_legal_info read b->squares only at the
\* indices 0..127 and stop at the first cell that is not an empty square of
\* the board
C22_RaysReadInsideSquares ==
    LegalInfoComputed =>
        /\ LegalInfoReads(board) \subseteq 0..127
        /\ \A t \in LegalInfoReads(board) :
              board.squares[t] = PIECE_NONE => SQ_VALID(t)

\* ---------------------------------------------------------------------
\* C23: search_go as a function of board, limits and seed
\* ---------------------------------------------------------------------

\* two returned calls of search_go had the same board and the same limits;
\* without a time callback the seed is b->hash ^ 0xDEAD and there are no
\* readings
SameInputs(c1, c2) ==
    /\ c1.op = "search_go" /\ c2.op = "search_go"
    /\ c1.before = c2.before
    /\ c1.arg = c2.arg
    /\ ~c1.arg.time_fn

\* C23: any two calls of search_go with an identical board, identical limits
\* and an identical seed return the same best move, score and depth
C23_SearchGoDeterministic ==
    \A i, j \in 1..Len(calls) :
        SameInputs(calls[i], calls[j]) =>
            /\ calls[i].result.best_move = calls[j].result.best_move
            /\ calls[i].result.score = calls[j].result.score
            /\ calls[i].result.depth = calls[j].result.depth

\* ---------------------------------------------------------------------
\* C24: the grace retry
\* ---------------------------------------------------------------------

\* the root call has returned to search_go with the stop flag set, nothing
\* committed and no root move recorded
StoppedWithoutRootMove ==
    /\ search.pc = "root_ret"
    /\ search.search_stopped
    /\ search.result.best_move.from = SQ_NONE
    /\ search.search_best_root_move.from = SQ_NONE

\* C24: whenever an iteration was stopped by the time limit or by the node
\* limit before a root move was recorded and nothing is committed, the next
\* step of search_go sets the deadline 5000 ms behind the reading of the
\* clock, clears the stop flag and goes back to the loop with the same depth
C24_StoppedWithoutRootMoveRetries ==
    [][StoppedWithoutRootMove =>
          /\ search'.pc = "loop"
          /\ ~search'.search_stopped
          /\ search'.d = search.d
          /\ search'.search_deadline = search'.now + 5000]_vars

\* ---------------------------------------------------------------------
\* C25: where check_time tests the limits
\* ---------------------------------------------------------------------

\* a step in which a node is counted sets the stop flag
StopFlagSet == ~search.search_stopped /\ search'.search_stopped

\* a step inside the tree in which the time callback returns a new reading
ClockRead == search.pc = "tree" /\ search'.now # search.now

\* C25 as stated: the stop flag is set, and the time callback is called, only
\* at nodes whose number is a multiple of 256
C25_LimitsSampledEvery256 ==
    [][/\ StopFlagSet => search'.search_nodes % 256 = 0
       /\ ClockRead => search'.search_nodes % 256 = 0]_vars

\* the limit that holds at the node where the stop flag was set; no node is
\* counted once the flag is set
StopCause ==
    search.search_stopped =>
        \/ search.search_max_nodes # 0 /\ search.search_nodes >= search.search_max_nodes
        \/ search.search_node_deadline # 0
           /\ search.search_nodes >= search.search_node_deadline
        \/ /\ search.search_nodes % 256 = 0
           /\ search.search_time_fn
           /\ search.search_deadline # 0
           /\ search.now >= search.search_deadline

\* before a grace retry no node is counted beyond a node limit
NodeLimitNotPassed ==
    (search.pc = "tree" /\ ~search.search_stopped /\ search.retries = 0) =>
        /\ search.search_max_nodes # 0 => search.search_nodes < search.search_max_nodes
        /\ search.search_node_deadline # 0 =>
              search.search_nodes < search.search_node_deadline

\* a reading of the clock at or behind the deadline that did not set the
\* flag is the one taken by search_go before the tree, fewer than 256 nodes ago
DeadlineSeenWithin256 ==
    (search.pc = "tree" /\ ~search.search_stopped /\ search.retries = 0
     /\ search.search_time_fn /\ search.search_deadline # 0
     /\ search.now >= search.search_deadline) =>
        search.search_nodes < 256

\* C25 amended: the node limits are tested at every node and set the stop
\* flag at the node that reaches them; the time callback is called only at
\* nodes whose number is a multiple of 256 and sets the flag there when its
\* reading has reached the deadline
C25_NodeLimitsEveryNodeClockEvery256 ==
    [][/\ StopCause'
       /\ NodeLimitNotPassed'
       /\ DeadlineSeenWithin256'
       /\ StopFlagSet => search'.search_nodes = search.search_nodes + 1
       /\ ClockRead => search'.search_nodes % 256 = 0]_vars

\* the stop flag was set by max_nodes at a node between two samples of the clock
C25_StoppedByNodeLimitBetweenSamples ==
    /\ search.pc = "tree"
    /\ search.search_stopped
    /\ search.search_max_nodes > 1
    /\ search.search_nodes = search.search_max_nodes
    /\ search.search_nodes % 256 # 0

\* the stop flag was set by the clock at node 256
StoppedByClockAt256 ==
    /\ search.pc = "tree"
    /\ search.search_stopped
    /\ search.search_nodes = 256
    /\ search.search_max_nodes = 0
    /\ search.search_node_deadline > 256

\* ------------------------------------------------------------------------
\* Position specification: a UI that hands positions to engine_set_position
\* and reads them back with engine_get_position
\* ------------------------------------------------------------------------

\* rnbqkbnr/ppp1pppp/8/3p4/4P3/8/PPPP1PPP/RNBQKBNR and
\* r3k2r/8/8/3p4/4P3/8/8/R3K2R: every kind of piece, kings and rooks at home,
\* a white pawn on e4 and a black pawn on d5
PositionGrids ==
    << << <<-4, -2, -3, -5, -6, -3, -2, -4>>,
          <<-1, -1, -1, 0, -1, -1, -1, -1>>,
          <<0, 0, 0, 0, 0, 0, 0, 0>>,
          <<0, 0, 0, -1, 0, 0, 0, 0>>,
          <<0, 0, 0, 0, 1, 0, 0, 0>>,
          <<0, 0, 0, 0, 0, 0, 0, 0>>,
          <<1, 1, 1, 1, 0, 1, 1, 1>>,
          <<4, 2, 3, 5, 6, 3, 2, 4>> >>,
       << <<-4, 0, 0, 0, -6, 0, 0, -4>>,
          <<0, 0, 0, 0, 0, 0, 0, 0>>,
          <<0, 0, 0, 0, 0, 0, 0, 0>>,
          <<0, 0, 0, -1, 0, 0, 0, 0>>,
          <<0, 0, 0, 0, 1, 0, 0, 0>>,
          <<0, 0, 0, 0, 0, 0, 0, 0>>,
          <<0, 0, 0, 0, 0, 0, 0, 0>>,
          <<4, 0, 0, 0, 6, 0, 0, 4>> >> >>

\* the en passant squares a position with the given side to move may have:
\* none, d6 behind the black pawn, e3 behind the white pawn
EpChoices(turn) ==
    IF turn = 1 THEN {<<ENGINE_EP_NONE, ENGINE_EP_NONE>>, <<2, 3>>}
    ELSE {<<ENGINE_EP_NONE, ENGINE_EP_NONE>>, <<5, 4>>}

\* the positions handed to engine_set_position; the halfmove clock is 0
\* behind a double push
ValidPositions ==
    {UiPos(PositionGrids[g], turn, castling, ep[1], ep[2], halfmove, fullmove) :
        g \in 1..2, turn \in {1, -1},
        castling \in {0, CASTLE_WK + CASTLE_BQ, CASTLE_WK + CASTLE_WQ + CASTLE_BK + CASTLE_BQ},
        ep \in EpChoices(1) \cup EpChoices(-1),
        halfmove \in {0, 100, 255}, fullmove \in {1, 300, 65535}}

IsValidPosition(p) ==
    /\ <<p.ep_row, p.ep_col>> \in EpChoices(p.turn)
    /\ p.ep_row # ENGINE_EP_NONE => p.halfmove = 0

\* engine_init; the UI holds the position p it will set in last.arg
PositionInit ==
    /\ uint_bits \in {24, 32}
    /\ board = board_init
    /\ undo_stack = << >>
    /\ pos_history = search_history_clear
    /\ last \in {[NoCall EXCEPT !.op = "engine_init", !.arg = p] :
                    p \in {q \in ValidPositions : IsValidPosition(q)}}
    /\ steps = 0
    /\ game = << >>
    /\ tt = tt_clear
    /\ pawn_cache = pawn_cache_init
    /\ search = search_init
    /\ calls = << >>

\* engine_set_position(p), p the position the UI holds
PositionSet ==
    /\ last.op # "engine_set_position"
    /\ board' = SetFromUi(last.arg, uint_bits)
    /\ pos_history' = search_history_push(search_history_clear,
                                          SetFromUi(last.arg, uint_bits).hash, uint_bits)
    /\ last' = [NoCall EXCEPT !.op = "engine_set_position", !.arg = last.arg]
    /\ UNCHANGED <<uint_bits, undo_stack, steps, game, tt, pawn_cache, search, calls>>

\* engine_get_position(out)
PositionGet ==
    /\ last.op = "engine_set_position"
    /\ last' = [NoCall EXCEPT !.op = "engine_get_position", !.arg = last.arg,
                              !.before = last.op, !.result = engine_get_position(board)]
    /\ UNCHANGED <<uint_bits, board, undo_stack, pos_history, steps, game, tt, pawn_cache,
                   search, calls>>

PositionNext ==
    \/ PositionSet
    \/ PositionGet

SpecPosition == PositionInit /\ [][PositionNext]_vars

\* C26: engine_get_position called behind engine_set_position(p), p a valid
\* position, returns p: grid, side to move, castling rights, en passant row
\* and column, halfmove clock and fullmove number
C26_SetThenGetIsIdentity ==
    (last.op = "engine_get_position" /\ last.before = "engine_set_position") =>
        last.result = last.arg

\* a position with black to move, an en passant square, all the pieces and
\* the largest fullmove number was set and read back
C26_ReadBackWithEpSquare ==
    /\ last.op = "engine_get_position"
    /\ last.before = "engine_set_position"
    /\ last.arg.turn = -1
    /\ last.arg.ep_row = 5 /\ last.arg.ep_col = 4
    /\ last.arg.fullmove = 65535
    /\ last.arg.ui_board = UiPos(PositionGrids[1], 1, 0, 0, 0, 0, 0).ui_board
    /\ last.result.ep_row = 5

\* ---------------------------------------------------------------------
\* C27: nothing is recorded once the stop flag is set
\* ---------------------------------------------------------------------

\* a step of a call of search_go that starts or ends with the stop flag set
StoppedStep ==
    /\ search.pc # "idle"
    /\ search.search_stopped \/ search'.search_stopped

\* C27: from the step that sets the stop flag to the return of search_go or
\* the start of the grace retry there is no TT store, no killer update, no
\* history-table update, no root best-move update and no root candidate
\* recorded, and every step inside the tree is the return of a call with
\* the value 0
C27_NothingRecordedAfterStop ==
    [][StoppedStep =>
          /\ tt' = tt
          /\ search'.killers = search.killers
          /\ search'.history = search.history
          /\ search'.search_best_root_move = search.search_best_root_move
          /\ search'.root_pending = search.root_pending
          /\ search.pc = "tree" =>
                /\ Len(search'.frames) = Len(search.frames) - 1
                /\ search'.ret = 0]_vars

\* negamax got the value of a stopped child while a root move, a TT entry and
\* callers above it are there to be updated
C27_StoppedBelowRecordedRootMove ==
    /\ search.pc = "tree"
    /\ search.search_stopped
    /\ Len(search.frames) >= 2
    /\ TopFrame(search).kind = "negamax"
    /\ TopFrame(search).pc = "ret"
    /\ search.search_best_root_move # MOVE_NONE
    /\ tt # tt_clear

\* ------------------------------------------------------------------------
\* Variance specification: search_go called with move variance, on one
\* position after the other
\* ------------------------------------------------------------------------

\* most positions set in a run
MaxSets == 2

\* 7k/8/8/8/8/8/P7/K7 w, n6k/8/8/8/8/8/8/K6N w and k7/7P/K7/8/8/8/8/8 w
VariancePositions == {2, 3, 5}

\* the limits with a threshold of 50 centipawns
WithVariance(limits) == [limits EXCEPT !.move_variance = 50]

VarianceLimits ==
    { WithVariance(Limits(1, 0, 0, FALSE)), WithVariance(Limits(0, 0, 1, FALSE)),
      WithVariance(Limits(0, 0, 179, FALSE)) }

VarianceAgainLimits ==
    { WithVariance(Limits(1, 0, 0, FALSE)), WithVariance(Limits(0, 0, 1, FALSE)) }

\* engine_set_position: the board is set up and the history restarted
VarianceSetPosition ==
    /\ search.pc = "idle"
    /\ steps < MaxSets
    /\ last.op # "engine_set_position"
    /\ \E i \in VariancePositions :
          /\ board' = SetFromUi(SearchPositions[i], uint_bits)
          /\ pos_history' = search_history_push(search_history_clear,
                                                SetFromUi(SearchPositions[i], uint_bits).hash,
                                                uint_bits)
          /\ game' = <<PositionKey(SetFromUi(SearchPositions[i], uint_bits))>>
    /\ last' = [NoCall EXCEPT !.op = "engine_set_position"]
    /\ steps' = steps + 1
    /\ UNCHANGED <<uint_bits, undo_stack, tt, pawn_cache, search, calls>>

\* search_go is called once on the position that was set
VarianceGo ==
    /\ search.pc = "idle"
    /\ last.op = "engine_set_position"
    /\ \E limits \in (IF search.searches = 0 THEN VarianceLimits ELSE VarianceAgainLimits) :
          /\ search' = SearchStart(search, board, limits, search.now, search.now)
          /\ last' = [NoCall EXCEPT !.op = "search_go", !.arg = limits, !.before = board]
    /\ UNCHANGED <<uint_bits, board, undo_stack, pos_history, steps, game, tt, pawn_cache, calls>>

VarianceNext ==
    \/ VarianceSetPosition
    \/ VarianceGo
    \/ SearchIterate
    \/ EnterNode
    \/ NullMoveReturn
    \/ GenerateMoves
    \/ SearchMove
    \/ ChildReturn
    \/ SearchIterationEnd
    \/ SearchReturn

SpecVariance == SearchInit /\ [][VarianceNext]_vars

\* the move search_go holds before the random pick: the committed best move,
\* or the root move a stopped first iteration had found
MoveBeforePick(s) ==
    IF s.committed.best_move.from # SQ_NONE THEN s.committed.best_move
    ELSE s.search_best_root_move

\* the candidates this call of search_go committed that lie within the
\* threshold of the best of them
CommittedCandidates(s) ==
    IF s.committed.best_move.from = SQ_NONE THEN {}
    ELSE {s.root_moves[i].m : i \in {j \in 1..Len(s.root_moves) :
            s.root_moves[j].s >= MaxScore(s.root_moves) - s.search_move_variance}}

\* C28: with move variance the move search_go returns is the committed best
\* move or a candidate recorded in the last committed iteration of the same
\* call with a score within the threshold of the best candidate, and it is a
\* legal move of the root position (a call that returns no move at all is
\* left to C1)
C28_VariancePicksCommittedCandidate ==
    (SearchReturned /\ last.arg.move_variance # 0
     /\ last.result.best_move # MOVE_NONE) =>
        /\ last.result.best_move \in {MoveBeforePick(search)} \cup CommittedCandidates(search)
        /\ last.result.best_move \in LegalMoves(last.before)

\* what does hold: the move returned is the move held before the pick or one
\* of the candidates committed last, by this call or by an earlier one
VariancePicksLastCommitted ==
    (SearchReturned /\ last.arg.move_variance # 0) =>
        last.result.best_move \in
            {MoveBeforePick(search)} \cup {search.root_moves[i].m : i \in 1..Len(search.root_moves)}

\* a move other than the committed best was picked among the candidates of
\* the call
PickedAnotherCandidate ==
    /\ SearchReturned
    /\ last.arg.move_variance # 0
    /\ search.committed.best_move.from # SQ_NONE
    /\ last.result.best_move # search.committed.best_move
    /\ last.result.best_move \in CommittedCandidates(search)

\* ------------------------------------------------------------------------
\* Long game specification: a UI that plays one long game through
\* engine_make_move and asks search_go for a move at the start and when the
\* position history is about to be full
\* ------------------------------------------------------------------------

\* most plies played in a run
MaxLongPlies == 257

\* the shortest history, behind the first position, with which search_go is called
LongFrom == 254

\* n6k/8/8/8/8/8/P7/K6N w
LongPosition ==
    UiPos(<< <<-2, 0, 0, 0, 0, 0, 0, -6>>, EmptyRow, EmptyRow, EmptyRow, EmptyRow,
             EmptyRow, <<1, 0, 0, 0, 0, 0, 0, 0>>, <<6, 0, 0, 0, 0, 0, 0, 2>> >>,
          1, 0, 255, 255, 0, 1)

\* the move the UI plays on board b after n plies: a2-a3 as ply 97 and a3-a4 as ply 195
\* keep the halfmove clock below 100, the kings shuffle a1-b1 and h8-g8
LongMove(b, n) ==
    IF n = 96 THEN UiMove(6, 0, 5, 0)
    ELSE IF n = 194 THEN UiMove(5, 0, 4, 0)
    ELSE IF b.side = WHITE
    THEN (IF b.king_sq[WHITE] = RC_TO_SQ(7, 0) THEN UiMove(7, 0, 7, 1)
          ELSE UiMove(7, 1, 7, 0))
    ELSE (IF b.king_sq[BLACK] = RC_TO_SQ(0, 7) THEN UiMove(0, 7, 0, 6)
          ELSE UiMove(0, 6, 0, 7))

LongLimits == { Limits(1, 0, 0, FALSE), Limits(0, 0, 179, FALSE) }

\* engine_set_position
LongSetPosition ==
    /\ game = << >>
    /\ board' = SetFromUi(LongPosition, uint_bits)
    /\ pos_history' = search_history_push(search_history_clear,
                                          SetFromUi(LongPosition, uint_bits).hash, uint_bits)
    /\ game' = <<PositionKey(SetFromUi(LongPosition, uint_bits))>>
    /\ last' = [NoCall EXCEPT !.op = "engine_set_position", !.before = pos_history]
    /\ UNCHANGED <<uint_bits, undo_stack, steps, tt, pawn_cache, search, calls>>

\* the state after engine_make_move returned r; the positions of the game
\* are not kept
LongMoveReturns(r) ==
    /\ r.made # MOVE_NONE
    /\ board' = r.b
    /\ pos_history' = r.h
    /\ last' = [NoCall EXCEPT !.op = "engine_make_move", !.m = r.made,
                              !.before = pos_history, !.result = r.status]
    /\ steps' = steps + 1

\* engine_make_move, before search_go was called
LongMakeMove ==
    /\ game # << >>
    /\ search.pc = "idle"
    /\ search.searches = 0
    /\ steps < MaxLongPlies
    /\ LongMoveReturns(engine_make_move(board, pos_history, LongMove(board, steps),
                                      uint_bits))
    /\ UNCHANGED <<uint_bits, undo_stack, game, tt, pawn_cache, search, calls>>

\* search_go is called on the position of the game
LongGo ==
    /\ game # << >>
    /\ search.pc = "idle"
    /\ search.searches = 0
    /\ Len(pos_history.hashes) = 1 \/ Len(pos_history.hashes) >= LongFrom
    /\ \E limits \in LongLimits :
          /\ search' = SearchStart(search, board, limits, search.now, search.now)
          /\ last' = [NoCall EXCEPT !.op = "search_go", !.arg = limits,
                                    !.before = pos_history]
    /\ UNCHANGED <<uint_bits, board, undo_stack, pos_history, steps, game, tt, pawn_cache, calls>>

LongNext ==
    \/ LongSetPosition
    \/ LongMakeMove
    \/ LongGo
    \/ SearchIterate
    \/ EnterNode
    \/ NullMoveReturn
    \/ GenerateMoves
    \/ SearchMove
    \/ ChildReturn
    \/ SearchIterationEnd
    \/ SearchReturn

SpecLong == EngineInit /\ [][LongNext]_vars

\* C29: the position history that search_go leaves is the one it found:
\* the same count, the same hashes below it and the same irreversible mark,
\* whether or not the history is full or nearly full
C29_SearchLeavesHistory ==
    SearchReturned => pos_history = last.before

\* the same with room left for every position the search pushes
SearchLeavesHistoryWithRoom ==
    (SearchReturned /\ Len(last.before.hashes) = 1) => pos_history = last.before

\* the search ran from the first position of the game and pushed positions
SearchedFromFirstPosition ==
    /\ SearchReturned
    /\ Len(last.before.hashes) = 1
    /\ last.result.nodes > 100

\* the move engine_make_move just made was a pawn move or a capture (the long
\* game has no promotion: the piece on the destination is the piece moved)
LastMoveIrreversible ==
    \/ PIECE_TYPE(board.squares[last.m.to]) = PIECE_PAWN
    \/ HasFlag(last.m.flags, FLAG_CAPTURE)

\* the history after a made move: the hashes before it and the hash of the new
\* position, the mark on the new entry after a pawn move or a capture and
\* where it was otherwise
MadeMoveRecorded ==
    /\ pos_history.hashes = Append(last.before.hashes, Low(board.hash, uint_bits))
    /\ pos_history.irreversible = IF LastMoveIrreversible
                                  THEN Len(last.before.hashes)
                                  ELSE last.before.irreversible

\* the history holds exactly the current position
HistoryIsCurrentPosition ==
    pos_history = [hashes |-> <<Low(board.hash, uint_bits)>>, irreversible |-> 0]

\* C30: every successful engine_make_move appends the hash of the new position
\* to the position history, however long the game is, and moves the
\* irreversible mark to the index of the new entry exactly when the move was a
\* pawn move or a capture; after engine_set_position the history holds exactly
\* the current position
C30_MadeMovesAreRecorded ==
    /\ last.op = "engine_make_move" => MadeMoveRecorded
    /\ last.op = "engine_set_position" => HistoryIsCurrentPosition

\* the same for moves made while the history has room
MadeMovesAreRecordedWithRoom ==
    /\ (last.op = "engine_make_move" /\ Len(last.before.hashes) < MAX_GAME_PLY)
          => MadeMoveRecorded
    /\ last.op = "engine_set_position" => HistoryIsCurrentPosition

\* a pawn move was made and recorded with the mark on its entry
PawnMoveMarked ==
    /\ last.op = "engine_make_move"
    /\ LastMoveIrreversible
    /\ pos_history.irreversible = Len(pos_history.hashes) - 1

\* a move was made with the history full
MoveMadeWithFullHistory ==
    /\ last.op = "engine_make_move"
    /\ Len(last.before.hashes) = MAX_GAME_PLY

\* ---------------------------------------------------------------------
\* Draw detection at the head of negamax
\* ---------------------------------------------------------------------

\* a step in which a call of negamax runs its head without being stopped
NegamaxEnters ==
    /\ search.pc = "tree"
    /\ TopFrame(search).pc = "enter"
    /\ TopFrame(search).kind = "negamax"
    /\ ~search.search_stopped
    /\ ~search'.search_stopped
    /\ search' # search

\* the hash of the node is an earlier entry of the history, at or after the
\* irreversible mark (the node's own entry is the last one)
RepeatsEarlierEntry ==
    \E i \in pos_history.irreversible..(Len(pos_history.hashes) - 2) :
        pos_history.hashes[i + 1] = Low(board.hash, uint_bits)

DrawnNode == RepeatsEarlierEntry \/ board.halfmove >= 100

\* the call returned the draw score at once: no probe result used, no move
\* generated, nothing stored
ReturnedDraw ==
    /\ Len(search'.frames) = Len(search.frames) - 1
    /\ search'.ret = SCORE_DRAW
    /\ search'.move_sp = search.move_sp
    /\ tt' = tt

\* the root call went on to its move loop
RootWentOn == Len(search'.frames) = Len(search.frames)

\* C31: a call of negamax at ply > 0 whose position repeats an earlier entry
\* of the position history at or after the irreversible mark, or whose
\* halfmove clock is 100 or more, returns the draw score before the
\* transposition table is probed and before moves are generated; the root
\* call is never ended by these tests
C31_DrawnNodeReturnsDraw ==
    [][NegamaxEnters =>
          /\ (TopFrame(search).ply > 0 /\ DrawnNode) => ReturnedDraw
          /\ (TopFrame(search).ply = 0 /\ DrawnNode
                 /\ ~tt_probe(tt, board.hash, board.lock).hit) => RootWentOn]_vars

\* the same for a search that began with room in the history for all of its
\* plies
DrawnNodeReturnsDrawWithRoom ==
    [][(NegamaxEnters /\ Len(pos_history.hashes) - TopFrame(search).ply + MAX_PLY
                            < MAX_GAME_PLY) =>
          /\ (TopFrame(search).ply > 0 /\ DrawnNode) => ReturnedDraw
          /\ (TopFrame(search).ply = 0 /\ DrawnNode
                 /\ ~tt_probe(tt, board.hash, board.lock).hit) => RootWentOn]_vars

\* a node below the root repeats an entry of the history and is about to be
\* entered
RepeatedNodeEntered ==
    /\ search.pc = "tree"
    /\ TopFrame(search).pc = "enter"
    /\ TopFrame(search).kind = "negamax"
    /\ TopFrame(search).ply > 0
    /\ ~search.search_stopped
    /\ RepeatsEarlierEntry

\* ---------------------------------------------------------------------
\* Checkmate and stalemate at the end of the move loop of negamax
\* ---------------------------------------------------------------------

\* a step in which a call of negamax leaves its staged move loop: the second
\* stage is over or a move has cut off
NegamaxFinishes ==
    /\ search.pc = "tree"
    /\ TopFrame(search).pc = "gen"
    /\ TopFrame(search).kind = "negamax"
    /\ TopFrame(search).stage >= 2 \/ TopFrame(search).cutoff
    /\ search' # search

\* the call returned v to its caller and stored nothing
ReturnedUnstored(v) ==
    /\ Len(search'.frames) = Len(search.frames) - 1
    /\ search'.ret = v
    /\ tt' = tt

\* the call returned the best score of the moves it searched
ReturnedBestScore ==
    /\ Len(search'.frames) = Len(search.frames) - 1
    /\ TopFrame(search).legal_moves > 0
    /\ TopFrame(search).best_move \in LegalMoves(board)
    /\ search'.ret = TopFrame(search).best_score

\* C32: a call of negamax that comes to the end of its move loop returns
\* -SCORE_MATE + ply when the side to move is in check and has no legal
\* move, SCORE_DRAW when it is not in check and has no legal move, and the
\* best score of a searched legal move when there is a legal move: futility
\* skipping and the evasion filter never leave a node that has a legal move
\* without a searched move
C32_MateAndStalemateExactlyWithoutLegalMove ==
    [][NegamaxFinishes =>
          /\ (LegalMoves(board) = {} /\ InCheck(board))
                => ReturnedUnstored(-SCORE_MATE + TopFrame(search).ply)
          /\ (LegalMoves(board) = {} /\ ~InCheck(board))
                => ReturnedUnstored(SCORE_DRAW)
          /\ LegalMoves(board) # {} => ReturnedBestScore]_vars

\* a call of negamax below the root is at the end of its move loop, in check
\* and without a legal move
C32_MatedNodeFinishes ==
    /\ search.pc = "tree"
    /\ TopFrame(search).pc = "gen"
    /\ TopFrame(search).kind = "negamax"
    /\ TopFrame(search).stage >= 2
    /\ TopFrame(search).ply > 0
    /\ InCheck(board)
    /\ LegalMoves(board) = {}

\* the same, not in check
StalematedNodeFinishes ==
    /\ search.pc = "tree"
    /\ TopFrame(search).pc = "gen"
    /\ TopFrame(search).kind = "negamax"
    /\ TopFrame(search).stage >= 2
    /\ ~InCheck(board)
    /\ LegalMoves(board) = {}

\* a call with futility skipping on is at the end of its move loop, in a
\* position with legal moves
FutilityNodeFinishes ==
    /\ search.pc = "tree"
    /\ TopFrame(search).pc = "gen"
    /\ TopFrame(search).kind = "negamax"
    /\ TopFrame(search).stage >= 2
    /\ TopFrame(search).can_futility
    /\ LegalMoves(board) # {}

\* a call in check skipped a move with the evasion filter and is at the end
\* of its move loop
CheckedNodeFinishes ==
    /\ search.pc = "tree"
    /\ TopFrame(search).pc = "gen"
    /\ TopFrame(search).kind = "negamax"
    /\ TopFrame(search).stage >= 2
    /\ TopFrame(search).linfo.in_check
    /\ LegalMoves(board) # {}

\* ------------------------------------------------------------------------
\* Legality specification: a position is set up and every generated move is
\* put to the fast path of the search (compute_legal_info,
\* move_needs_legality_check, is_evasion_candidate) and to board_make
\* followed by board_is_legal
\* ------------------------------------------------------------------------

LegalityPositions ==
    << \* k7/4r3/8/b7/4N3/7N/3P2P1/r1B1K3 w: pins on a file, a rank and a diagonal
       UiPos(<< <<-6, 0, 0, 0, 0, 0, 0, 0>>, <<0, 0, 0, 0, -4, 0, 0, 0>>, EmptyRow,
                <<-3, 0, 0, 0, 0, 0, 0, 0>>, <<0, 0, 0, 0, 2, 0, 0, 0>>,
                <<0, 0, 0, 0, 0, 0, 0, 2>>, <<0, 0, 0, 1, 0, 0, 1, 0>>,
                <<-4, 0, 3, 0, 6, 0, 0, 0>> >>, 1, 0, 255, 255, 0, 1),
       \* 4r2k/8/2B5/8/R7/6N1/3P4/4K3 w: a rook check that can be blocked
       UiPos(<< <<0, 0, 0, 0, -4, 0, 0, -6>>, EmptyRow, <<0, 0, 3, 0, 0, 0, 0, 0>>,
                EmptyRow, <<4, 0, 0, 0, 0, 0, 0, 0>>, <<0, 0, 0, 0, 0, 0, 2, 0>>,
                <<0, 0, 0, 1, 0, 0, 0, 0>>, <<0, 0, 0, 0, 6, 0, 0, 0>> >>,
             1, 0, 255, 255, 0, 1),
       \* 4r2k/8/8/8/8/5n2/8/3QK3 w: double check
       UiPos(<< <<0, 0, 0, 0, -4, 0, 0, -6>>, EmptyRow, EmptyRow, EmptyRow, EmptyRow,
                <<0, 0, 0, 0, 0, -2, 0, 0>>, EmptyRow, <<0, 0, 0, 5, 6, 0, 0, 0>> >>,
             1, 0, 255, 255, 0, 1),
       \* 4k3/8/8/2PpP3/4K3/8/8/8 w - d6: check by the pawn that can be taken en passant
       UiPos(<< <<0, 0, 0, 0, -6, 0, 0, 0>>, EmptyRow, EmptyRow,
                <<0, 0, 1, -1, 1, 0, 0, 0>>, <<0, 0, 0, 0, 6, 0, 0, 0>>, EmptyRow,
                EmptyRow, EmptyRow >>, 1, 0, 2, 3, 0, 1),
       \* 4k3/8/8/KPp4r/8/8/8/8 w - c6: en passant uncovers the king on the rank
       UiPos(<< <<0, 0, 0, 0, -6, 0, 0, 0>>, EmptyRow, EmptyRow,
                <<6, 1, -1, 0, 0, 0, 0, -4>>, EmptyRow, EmptyRow, EmptyRow, EmptyRow >>,
             1, 0, 2, 2, 0, 1),
       \* 4k3/8/8/8/8/3n4/8/3RKB2 w: a knight check
       UiPos(<< <<0, 0, 0, 0, -6, 0, 0, 0>>, EmptyRow, EmptyRow, EmptyRow, EmptyRow,
                <<0, 0, 0, -2, 0, 0, 0, 0>>, EmptyRow, <<0, 0, 0, 4, 6, 3, 0, 0>> >>,
             1, 0, 255, 255, 0, 1),
       \* 7k/8/8/8/r7/8/6p1/K6Q b: a queen check answered by a capturing promotion
       UiPos(<< <<0, 0, 0, 0, 0, 0, 0, -6>>, EmptyRow, EmptyRow, EmptyRow,
                <<-4, 0, 0, 0, 0, 0, 0, 0>>, EmptyRow, <<0, 0, 0, 0, 0, 0, -1, 0>>,
                <<6, 0, 0, 0, 0, 0, 0, 5>> >>, -1, 0, 255, 255, 0, 1),
       \* k6b/8/8/8/8/8/1P6/K1N5 w: the king in the corner behind a pinned pawn
       UiPos(<< <<-6, 0, 0, 0, 0, 0, 0, -3>>, EmptyRow, EmptyRow, EmptyRow, EmptyRow,
                EmptyRow, <<0, 1, 0, 0, 0, 0, 0, 0>>, <<6, 0, 2, 0, 0, 0, 0, 0>> >>,
             1, 0, 255, 255, 0, 1),
       \* r3k2r/8/8/8/8/8/4q3/R3K2R w KQ: check by a guarded queen next to the king
       UiPos(<< <<-4, 0, 0, 0, -6, 0, 0, -4>>, EmptyRow, EmptyRow, EmptyRow, EmptyRow,
                EmptyRow, <<0, 0, 0, 0, -5, 0, 0, 0>>, <<4, 0, 0, 0, 6, 0, 0, 4>> >>,
             1, 3, 255, 255, 0, 1) >>

LegalityInit ==
    /\ uint_bits \in {24, 32}
    /\ \E i \in 1..Len(LegalityPositions) :
          board = SetFromUi(LegalityPositions[i], uint_bits)
    /\ undo_stack = << >>
    /\ pos_history = search_history_clear
    /\ last = [NoCall EXCEPT !.op = "board_set_from_ui"]
    /\ steps = 0
    /\ game = << >>
    /\ tt = tt_clear
    /\ pawn_cache = pawn_cache_init
    /\ search = search_init
    /\ calls = << >>

\* what the move loop finds out about move m: li is compute_legal_info(b),
\* tr the move made, tested with board_is_legal, and unmade
LegalityOf(b, li, m, tr) ==
    [in_check |-> li.in_check,
     candidate |-> is_evasion_candidate(b, li, m),
     needs_check |-> move_needs_legality_check(b, li, m),
     legal |-> tr.legal]

LegalityTried(m, r) ==
    last' = [NoCall EXCEPT !.op = "move_needs_legality_check", !.m = m, !.result = r]

\* the next generated move is examined
LegalityTry ==
    /\ steps < Len(generate_moves(board, GEN_ALL))
    /\ LegalityTried(generate_moves(board, GEN_ALL)[steps + 1],
                     LegalityOf(board, compute_legal_info(board),
                                generate_moves(board, GEN_ALL)[steps + 1],
                                TryMove(board, generate_moves(board, GEN_ALL)[steps + 1])))
    /\ steps' = steps + 1
    /\ UNCHANGED <<uint_bits, board, undo_stack, pos_history, game, tt, pawn_cache,
                   search, calls>>

LegalityNext == LegalityTry

SpecLegality == LegalityInit /\ [][LegalityNext]_vars

LegalityExamined == last.op = "move_needs_legality_check"

\* C33: the in_check flag of compute_legal_info is whether the king is
\* attacked; out of check a move that is not en passant, not a king move and
\* does not start on a pinned square (one that needs no test) leaves the
\* mover's king unattacked after board_make; in check every move the evasion
\* filter rejects is illegal
C33_FastPathAgreesWithMakeThenTest ==
    LegalityExamined =>
        /\ last.result.in_check = InCheck(board)
        /\ (~InCheck(board) /\ ~last.result.needs_check) => last.result.legal
        /\ (InCheck(board) /\ ~last.result.candidate) => ~last.result.legal

\* an illegal move of a pinned piece was sent to the test, out of check
PinnedMoveNeedsTest ==
    /\ LegalityExamined
    /\ ~InCheck(board)
    /\ last.result.needs_check
    /\ ~last.result.legal
    /\ PIECE_TYPE(board.squares[last.m.from]) # PIECE_KING
    /\ ~HasFlag(last.m.flags, FLAG_EN_PASSANT)

\* out of check a move passed without the test
PassedWithoutTest ==
    /\ LegalityExamined
    /\ ~InCheck(board)
    /\ ~last.result.needs_check

\* in check the filter rejected a move
C33_EvasionRejected ==
    /\ LegalityExamined
    /\ InCheck(board)
    /\ ~last.result.candidate

\* in check a block, a capture of the checker by a piece, and the en passant
\* capture of the checking pawn were kept and are legal
EvasionKept ==
    /\ LegalityExamined
    /\ InCheck(board)
    /\ last.result.candidate
    /\ last.result.legal
    /\ PIECE_TYPE(board.squares[last.m.from]) # PIECE_KING

EnPassantEvasionKept == EvasionKept /\ HasFlag(last.m.flags, FLAG_EN_PASSANT)

\* a move kept by the filter is illegal all the same: the test is needed
EvasionKeptButIllegal ==
    /\ LegalityExamined
    /\ InCheck(board)
    /\ last.result.candidate
    /\ ~last.result.legal

\* ------------------------------------------------------------------------
\* Hint specification: search_go on one position and then on another whose
\* hash has the same low 12 bits and whose lock is the same, so that the
\* second search finds the first one's root entry in the transposition table
\* ------------------------------------------------------------------------

HintPositions ==
    << \* n7/8/K7/8/8/7P/k7/8 w
       UiPos(<< <<-2, 0, 0, 0, 0, 0, 0, 0>>, EmptyRow, <<6, 0, 0, 0, 0, 0, 0, 0>>,
                EmptyRow, EmptyRow, <<0, 0, 0, 0, 0, 0, 0, 1>>,
                <<-6, 0, 0, 0, 0, 0, 0, 0>>, EmptyRow >>, 1, 0, 255, 255, 0, 1),
       \* 8/8/P7/5n2/8/8/5k2/K7 w
       UiPos(<< EmptyRow, EmptyRow, <<1, 0, 0, 0, 0, 0, 0, 0>>,
                <<0, 0, 0, 0, 0, -2, 0, 0>>, EmptyRow, EmptyRow,
                <<0, 0, 0, 0, 0, -6, 0, 0>>, <<6, 0, 0, 0, 0, 0, 0, 0>> >>,
             1, 0, 255, 255, 0, 1) >>

HintLimits == { Limits(1, 0, 0, FALSE), Limits(2, 0, 0, FALSE), Limits(4, 0, 0, FALSE) }

HintAgainLimits == { Limits(2, 0, 0, FALSE) }

\* engine_set_position: the board is set up and the history restarted; the
\* transposition table is left as it is
HintSetPosition ==
    /\ search.pc = "idle"
    /\ steps < Len(HintPositions)
    /\ last.op # "engine_set_position"
    /\ board' = SetFromUi(HintPositions[steps + 1], uint_bits)
    /\ pos_history' = search_history_push(search_history_clear,
                                          SetFromUi(HintPositions[steps + 1], uint_bits).hash,
                                          uint_bits)
    /\ game' = <<PositionKey(SetFromUi(HintPositions[steps + 1], uint_bits))>>
    /\ last' = [NoCall EXCEPT !.op = "engine_set_position"]
    /\ steps' = steps + 1
    /\ UNCHANGED <<uint_bits, undo_stack, tt, pawn_cache, search, calls>>

\* search_go is called once on the position that was set
HintGo ==
    /\ search.pc = "idle"
    /\ last.op = "engine_set_position"
    /\ \E limits \in (IF search.searches = 0 THEN HintLimits ELSE HintAgainLimits) :
          /\ search' = SearchStart(search, board, limits, search.now, search.now)
          /\ last' = [NoCall EXCEPT !.op = "search_go", !.arg = limits, !.before = board]
    /\ UNCHANGED <<uint_bits, board, undo_stack, pos_history, steps, game, tt, pawn_cache, calls>>

HintNext ==
    \/ HintSetPosition
    \/ HintGo
    \/ SearchIterate
    \/ EnterNode
    \/ NullMoveReturn
    \/ GenerateMoves
    \/ SearchMove
    \/ ChildReturn
    \/ SearchIterationEnd
    \/ SearchReturn

SpecHint == SearchInit /\ [][HintNext]_vars

\* move m is the one the hint names: same from, same to, same promotion kind
MatchesHint(m, tt_move) ==
    /\ m.from = tt_move.from
    /\ m.to = tt_move.to
    /\ PromoBits(m.flags) = PromoBits(tt_move.flags)

\* the moves and scores the running call has in the pool
PoolSlice(s) ==
    SubSeq(s.pool, TopFrame(s).base + 1, TopFrame(s).base + TopFrame(s).count)

\* the running call is in a move loop with a move left to try
InMoveLoop ==
    /\ search.pc = "tree"
    /\ TopFrame(search).pc = "loop"
    /\ TopFrame(search).i < TopFrame(search).count

\* C34: the best move of a transposition-table entry only orders the moves:
\* in the move loop of negamax the generated move with the from square, to
\* square and promotion kind of the hint has the score SCORE_TT_MOVE, every
\* other move a lower one, and the move with the hint's squares is the first
\* one picked in its stage; every move the search picks and hands to
\* board_make is a move generate_moves emits for the position on the board,
\* whatever position the entry was stored for
C34_TtMoveOnlyOrders ==
    InMoveLoop =>
        /\ PickedMove(search) \in SeqRange(generate_moves(board, GEN_ALL))
        /\ TopFrame(search).kind = "negamax" =>
              /\ \A k \in 1..Len(PoolSlice(search)) :
                    (PoolSlice(search)[k].s = SCORE_TT_MOVE)
                       <=> MatchesHint(PoolSlice(search)[k].m, TopFrame(search).tt_move)
              /\ \A k \in 1..Len(PoolSlice(search)) : PoolSlice(search)[k].s <= SCORE_TT_MOVE
              /\ (TopFrame(search).i = 0
                  /\ \E k \in 1..Len(PoolSlice(search)) :
                        MatchesHint(PoolSlice(search)[k].m, TopFrame(search).tt_move))
                    => MatchesHint(PickedMove(search), TopFrame(search).tt_move)

\* the entry of another position gave the hint: no move of the position on
\* the board has its squares, and the move loop runs
C34_ForeignHintInMoveLoop ==
    /\ InMoveLoop
    /\ TopFrame(search).kind = "negamax"
    /\ TopFrame(search).tt_move # MOVE_NONE
    /\ \A m \in SeqRange(generate_moves(board, GEN_ALL)) :
          ~MatchesHint(m, TopFrame(search).tt_move)

\* the hint names a generated move that is not the first one generated, and
\* it is picked first
HintPickedFirst ==
    /\ InMoveLoop
    /\ TopFrame(search).kind = "negamax"
    /\ TopFrame(search).i = 0
    /\ MatchesHint(PickedMove(search), TopFrame(search).tt_move)
    /\ ~MatchesHint(PoolSlice(search)[1].m, TopFrame(search).tt_move)

\* the two positions of the run share the slot and the lock
HintPositionsCollide ==
    /\ steps = 2
    /\ last.op = "engine_set_position"
    /\ SlotOf(board.hash) = SlotOf(SetFromUi(HintPositions[1], uint_bits).hash)
    /\ board.lock = SetFromUi(HintPositions[1], uint_bits).lock
    /\ board.hash # SetFromUi(HintPositions[1], uint_bits).hash

\* ---- C35: the recursion is bounded in every iteration ----

\* the frame has passed the head of its function: the node is expanded
Expanded(f) == f.pc # "enter"

\* the bounds of C35 on the frames of the stack
FramesBounded(s) ==
    \A k \in 1..Len(s.frames) :
        LET f == s.frames[k]
        IN /\ f.ply = k - 1
           /\ f.ext <= 2
           /\ f.kind = "negamax" => f.ply + f.depth <= s.d + 2
           /\ f.kind = "quiescence" =>
                /\ f.qs_depth <= QS_MAX_DEPTH
                /\ f.ply - f.qs_depth <= s.d + 2
                /\ Expanded(f) => f.qs_depth < QS_MAX_DEPTH
           /\ f.ply <= s.d + 2 + QS_MAX_DEPTH
           /\ Expanded(f) => f.ply < MAX_PLY

\* C35: in iteration d every node of the main search has ply + depth <= d + 2
\* with at most two check extensions counted, a quiescence node is at most
\* QS_MAX_DEPTH plies below the node where the depth reached zero, so no node
\* is at a ply greater than d + 2 + QS_MAX_DEPTH, and no node at ply >= MAX_PLY
\* is expanded
C35_RecursionIsBounded ==
    search.pc = "tree" => FramesBounded(search)

\* the bounds hold in the iterations whose counter has not wrapped
RecursionIsBoundedBeforeWrap ==
    (search.pc = "tree" /\ search.d >= 1) => FramesBounded(search)

\* the iteration counter wrapped and the root is visited in iteration -128
RootVisitedAfterWrap ==
    /\ search.pc = "tree"
    /\ search.d < 0
    /\ Len(search.frames) > 0

\* a node is reached on a path with two check extensions
C35_TwiceExtendedPath ==
    /\ search.pc = "tree"
    /\ search.d >= 1
    /\ \E k \in 1..Len(search.frames) :
          /\ search.frames[k].kind = "negamax"
          /\ search.frames[k].ext = 2
          /\ search.frames[k].ply + search.frames[k].depth = search.d + 2

\* ---- C36: the null move ----

\* the step makes a null move: the node at the top is left waiting for the
\* null-move search and the child is called
NullMoveMade ==
    /\ search.pc = "tree" /\ search'.pc = "tree"
    /\ TopFrame(search).pc = "enter"
    /\ Len(search'.frames) = Len(search.frames) + 1
    /\ search'.frames[Len(search.frames)].pc = "null_ret"

\* the step takes the null move back
NullMoveTakenBack ==
    /\ search.pc = "tree"
    /\ TopFrame(search).pc = "null_ret"
    /\ search' # search

\* the position before the null move that led to board b, old_ep standing
BeforeNull(b, old_ep) ==
    [b EXCEPT
        !.side = 1 - @,
        !.hash = IF old_ep # SQ_NONE
                 THEN Xor(Xor(@, zobrist_side), zobrist_ep_file(SQ_TO_COL(old_ep)))
                 ELSE Xor(@, zobrist_side),
        !.lock = IF old_ep # SQ_NONE
                 THEN Xor(Xor(@, lock_side), lock_ep_file(SQ_TO_COL(old_ep)))
                 ELSE Xor(@, lock_side),
        !.ep_square = old_ep]

\* the conditions under which the null move was made, seen in the step
NullMoveConditions ==
    LET f == TopFrame(search)
        g == search'.frames[Len(search.frames)]
        child == TopFrame(search')
    IN /\ f.kind = "negamax"
       /\ f.do_null
       /\ ~InCheck(board)
       /\ g.depth >= 3
       /\ f.ply > 0
       /\ \E sq \in {x \in 0..127 : SQ_VALID(x)} :
             /\ board.squares[sq] # PIECE_NONE
             /\ PIECE_COLOR(board.squares[sq]) = board.side * COLOR_BLACK
             /\ PIECE_TYPE(board.squares[sq]) \notin {PIECE_PAWN, PIECE_KING}
       /\ ~child.do_null
       /\ child.ply = f.ply + 1
       /\ board' = [BeforeNull(board, board.ep_square) EXCEPT !.ep_square = SQ_NONE]

\* no node waiting for its null-move search is the child of another one
NoConsecutiveNullMoves ==
    \A k \in 1..(Len(search.frames) - 1) :
        ~(search.frames[k].pc = "null_ret" /\ search.frames[k + 1].pc = "null_ret")

\* side, ep_square, hash and lock are as before the null move
NullMoveRestored ==
    LET before == BeforeNull(board, TopFrame(search).null.old_ep)
    IN /\ board'.side = before.side
       /\ board'.ep_square = before.ep_square
       /\ board'.hash = before.hash
       /\ board'.lock = before.lock

\* NullMoveRestored but for the bits of hash above the width of zhash_t
NullMoveRestoredInZhash ==
    LET before == BeforeNull(board, TopFrame(search).null.old_ep)
    IN /\ board'.side = before.side
       /\ board'.ep_square = before.ep_square
       /\ board'.hash = Low(before.hash, uint_bits)
       /\ board'.lock = before.lock
       /\ board' = [board EXCEPT !.side = before.side, !.ep_square = before.ep_square,
                                 !.hash = Low(before.hash, uint_bits),
                                 !.lock = before.lock]

\* C36: a null move is made only with do_null set, out of check, at depth >= 3,
\* at ply > 0 and with a piece other than pawns and king; its child has do_null
\* cleared, so no two null moves follow each other on a path; and the step
\* that ends the null-move search, stopped or not, leaves side, ep_square,
\* hash and lock as they were before the null move
C36_NullMoveConditionsAndRestore ==
    [][/\ NullMoveMade => NullMoveConditions
       /\ NoConsecutiveNullMoves'
       /\ NullMoveTakenBack => NullMoveRestored]_vars

\* the same with hash restored in the width of zhash_t
NullMoveConditionsAndRestoreInZhash ==
    [][/\ NullMoveMade => NullMoveConditions
       /\ NoConsecutiveNullMoves'
       /\ NullMoveTakenBack => NullMoveRestoredInZhash]_vars

\* a null-move search ends with the search stopped
StoppedInNullMove ==
    /\ search.pc = "tree"
    /\ Len(search.frames) > 0
    /\ TopFrame(search).pc = "null_ret"
    /\ search.search_stopped

\* a null-move search ends on a position whose hash has bits above zhash_t
NullMoveOverWideHash ==
    /\ search.pc = "tree"
    /\ Len(search.frames) > 0
    /\ TopFrame(search).pc = "null_ret"
    /\ Low(board.hash, uint_bits) # board.hash

\* a null move was made with an en passant square standing
NullMoveOverEpSquare ==
    /\ search.pc = "tree"
    /\ Len(search.frames) > 0
    /\ TopFrame(search).pc = "null_ret"
    /\ TopFrame(search).null.old_ep # SQ_NONE

\* ---- C37: board_make then board_unmake restores up to piece-list order ----

\* the squares of side s in its piece list
ListSquares(b, s) == {b.piece_list[s][i] : i \in 0..(b.piece_count[s] - 1)}

\* the square of the piece that move m captured, made by the side to move of b
CapturedSquare(b, m) ==
    IF HasFlag(m.flags, FLAG_EN_PASSANT) THEN EpCapSq(b.side, m.to) ELSE m.to

IsCapture(m) == HasFlag(m.flags, FLAG_CAPTURE) \/ HasFlag(m.flags, FLAG_EN_PASSANT)

\* C37: after board_make followed by board_unmake of a generated move squares,
\* side, castling, ep_square, halfmove, fullmove, hash, pawn_hash, lock, mg,
\* eg, phase, bishop_count, king_sq and piece_count have their previous
\* values, each piece list holds the same set of squares, and a captured
\* piece that was put back (capture or en passant) is the last entry of its
\* list
C37_RestoredUpToListOrder ==
    last.op = "board_unmake" =>
        /\ board.squares = last.before.squares
        /\ board.side = last.before.side
        /\ board.castling = last.before.castling
        /\ board.ep_square = last.before.ep_square
        /\ board.halfmove = last.before.halfmove
        /\ board.fullmove = last.before.fullmove
        /\ board.hash = last.before.hash
        /\ board.pawn_hash = last.before.pawn_hash
        /\ board.lock = last.before.lock
        /\ board.mg = last.before.mg
        /\ board.eg = last.before.eg
        /\ board.phase = last.before.phase
        /\ board.bishop_count = last.before.bishop_count
        /\ board.king_sq = last.before.king_sq
        /\ board.piece_count = last.before.piece_count
        /\ \A s \in 0..1 : ListSquares(board, s) = ListSquares(last.before, s)
        /\ IsCapture(last.m) =>
              LET opp == 1 - board.side
                  csq == CapturedSquare(board, last.m)
              IN /\ board.piece_list[opp][board.piece_count[opp] - 1] = csq
                 /\ board.piece_index[csq] = board.piece_count[opp] - 1

\* a captured piece that was not the last of its list came back at the tail
C37_CapturedBackAtTail ==
    /\ last.op = "board_unmake"
    /\ IsCapture(last.m)
    /\ LET opp == 1 - board.side
           csq == CapturedSquare(board, last.m)
       IN /\ last.before.piece_index[csq] # board.piece_count[opp] - 1
          /\ board.piece_index[csq] = board.piece_count[opp] - 1

\* an en passant capture was taken back
EnPassantTakenBack ==
    /\ last.op = "board_unmake"
    /\ HasFlag(last.m.flags, FLAG_EN_PASSANT)
    /\ board.piece_list # last.before.piece_list

\* a capture made after another move was taken back
InnerPairTakenBack ==
    /\ last.op = "board_unmake"
    /\ Len(undo_stack) = 1
    /\ IsCapture(last.m)

\* ------------------------------------------------------------------------
\* UI move specification: a UI that asks engine_is_legal_move about a move
\* and hands moves to engine_make_move, with and without the flags the
\* generator would give them
\* ------------------------------------------------------------------------

\* most moves applied in one run
MaxUiMoves == 2

UiMovePositions ==
    << \* 2n1k3/1P6/8/8/8/8/8/4K3 w: the pawn promotes on b8 or by taking on c8
       UiPos(<< <<0, 0, -2, 0, -6, 0, 0, 0>>, <<0, 1, 0, 0, 0, 0, 0, 0>>, EmptyRow,
                EmptyRow, EmptyRow, EmptyRow, EmptyRow, <<0, 0, 0, 0, 6, 0, 0, 0>> >>,
             1, 0, 255, 255, 0, 30),
       \* 4k3/8/8/8/8/8/3n4/2b1K3 w: the knight on d2 is guarded by the bishop
       \* and stands before it in the black piece list; f1 is attacked
       UiPos(<< <<0, 0, 0, 0, -6, 0, 0, 0>>, EmptyRow, EmptyRow, EmptyRow, EmptyRow,
                EmptyRow, <<0, 0, 0, -2, 0, 0, 0, 0>>, <<0, 0, -3, 0, 6, 0, 0, 0>> >>,
             1, 0, 255, 255, 4, 30) >>

\* the squares the UI picks moves between: b7-b8, b7xc8, b7-a8, e1-e2, e1xd2,
\* e1-f1, e1-e3, a1-a2 (an empty square), e8-e7, c8-b6 and d2-f1
UiMovePairs ==
    { <<1, 1, 0, 1>>, <<1, 1, 0, 2>>, <<1, 1, 0, 0>>, <<7, 4, 6, 4>>, <<7, 4, 6, 3>>,
      <<7, 4, 7, 5>>, <<7, 4, 5, 4>>, <<7, 0, 6, 0>>, <<0, 4, 1, 4>>, <<0, 2, 2, 1>>,
      <<6, 3, 7, 5>> }

\* the flags the UI may send: none, promotion to queen, the knight bits
\* without the promotion flag, promotion to knight
UiMoveFlags == {0, FLAG_PROMOTION, FLAG_PROMO_N, FLAG_PROMOTION + FLAG_PROMO_N}

UiMoves ==
    { [from_row |-> p[1], from_col |-> p[2], to_row |-> p[3], to_col |-> p[4],
       flags |-> fl] : p \in UiMovePairs, fl \in UiMoveFlags }

\* is_legal_internal on a matching move: the answer and the board after
\* board_make and board_unmake
IsLegalAnswer(t) == [b |-> t.b, legal |-> t.legal]

\* the matching loop of engine_is_legal_move from moves[i] on
RECURSIVE IsLegalLoop(_, _, _, _)
IsLegalLoop(b, moves, i, target) ==
    IF i > Len(moves) THEN [b |-> b, legal |-> FALSE]
    ELSE IF moves[i].to = target.to
               /\ PromoBits(moves[i].flags) = PromoBits(target.flags)
    THEN IsLegalAnswer(TryMove(b, moves[i]))
    ELSE IsLegalLoop(b, moves, i + 1, target)

engine_is_legal_move(b, em) ==
    IsLegalLoop(b, generate_moves_from(b, engine_to_internal_move(em).from), 1,
                engine_to_internal_move(em))

UiMoveInit ==
    /\ uint_bits \in {24, 32}
    /\ \E i \in 1..Len(UiMovePositions) :
          LET b == SetFromUi(UiMovePositions[i], uint_bits)
          IN /\ board = b
             /\ pos_history = search_history_push(search_history_clear, b.hash, uint_bits)
             /\ game = <<PositionKey(b)>>
    /\ undo_stack = << >>
    /\ last = [NoCall EXCEPT !.op = "engine_set_position"]
    /\ steps = 0
    /\ tt = tt_clear
    /\ pawn_cache = pawn_cache_init
    /\ search = search_init
    /\ calls = << >>

\* the state after engine_make_move(em) returned r
UiMakeMoveReturns(em, r) ==
    /\ board' = r.b
    /\ pos_history' = r.h
    /\ last' = [NoCall EXCEPT !.op = "engine_make_move", !.m = r.made, !.arg = em,
                              !.before = [b |-> board, h |-> pos_history],
                              !.result = r.status]
    /\ game' = IF r.made = MOVE_NONE THEN game ELSE Append(game, PositionKey(r.b))
    /\ steps' = IF r.made = MOVE_NONE THEN steps ELSE steps + 1

UiMakeMove ==
    /\ steps < MaxUiMoves
    /\ \E em \in UiMoves :
          UiMakeMoveReturns(em, engine_make_move(board, pos_history, em, uint_bits))
    /\ UNCHANGED <<uint_bits, undo_stack, tt, pawn_cache, search, calls>>

\* the state after engine_is_legal_move(em) returned r
UiIsLegalReturns(em, r) ==
    /\ board' = r.b
    /\ last' = [NoCall EXCEPT !.op = "engine_is_legal_move", !.arg = em,
                              !.before = [b |-> board, h |-> pos_history],
                              !.result = IF r.legal THEN 1 ELSE 0]

UiIsLegalMove ==
    /\ \E em \in UiMoves : UiIsLegalReturns(em, engine_is_legal_move(board, em))
    /\ UNCHANGED <<uint_bits, undo_stack, pos_history, steps, game, tt, pawn_cache,
                   search, calls>>

UiMoveNext == UiMakeMove \/ UiIsLegalMove

SpecUiMove == UiMoveInit /\ [][UiMoveNext]_vars

\* ---- C38: engine_make_move without a matching legal move ----

\* some legal move of b has the squares of the UI move em and, when it is a
\* promotion, its promotion kind
MatchesLegalMove(b, em) ==
    \E m \in LegalMoves(b) :
        /\ m.from = RC_TO_SQ(em.from_row, em.from_col)
        /\ m.to = RC_TO_SQ(em.to_row, em.to_col)
        /\ HasFlag(m.flags, FLAG_PROMOTION) => PromoMask(m.flags) = PromoMask(em.flags)

\* engine_make_move was called with a move no legal move matches
UnmatchedMakeMove ==
    /\ last.op = "engine_make_move"
    /\ ~MatchesLegalMove(last.before.b, last.arg)

\* C38: when no generated legal move matches the squares (and promotion kind)
\* given to engine_make_move, the call returns ENGINE_STATUS_NORMAL and the
\* board, the position history and its irreversible cursor are exactly as
\* before the call
C38_UnmatchedMoveChangesNothing ==
    UnmatchedMakeMove =>
        /\ last.result = ENGINE_STATUS_NORMAL
        /\ last.m = MOVE_NONE
        /\ board = last.before.b
        /\ pos_history = last.before.h

\* the same, the board compared but for the order of the piece lists
UnmatchedMoveChangesNothingButListOrder ==
    UnmatchedMakeMove =>
        /\ last.result = ENGINE_STATUS_NORMAL
        /\ last.m = MOVE_NONE
        /\ [board EXCEPT !.piece_list = 0, !.piece_index = 0]
              = [last.before.b EXCEPT !.piece_list = 0, !.piece_index = 0]
        /\ \A s \in 0..1 :
              {board.piece_list[s][i] : i \in 0..(board.piece_count[s] - 1)}
                 = {last.before.b.piece_list[s][i] : i \in 0..(board.piece_count[s] - 1)}
        /\ pos_history = last.before.h

\* a capture that leaves the king attacked was asked for
IllegalCaptureAsked ==
    /\ UnmatchedMakeMove
    /\ board.piece_list # last.before.b.piece_list

\* a move from an empty square or from a piece of the other side was asked for
ForeignSquareAsked ==
    /\ UnmatchedMakeMove
    /\ generate_moves_from(last.before.b,
                           RC_TO_SQ(last.arg.from_row, last.arg.from_col)) = << >>
    /\ steps > 0

\* ---- C39: engine_is_legal_move against engine_make_move ----

\* the UI asked engine_is_legal_move about a move and now hands the same
\* move to engine_make_move
AskedThenMade ==
    /\ last.op = "engine_is_legal_move"
    /\ last'.op = "engine_make_move"
    /\ last'.arg = last.arg

\* engine_make_move applied a move
MoveWasApplied == last'.m # MOVE_NONE /\ board'.side # board.side

\* C39: engine_make_move applies a move exactly when engine_is_legal_move
\* answered non-zero for the same move in the same position, whatever
\* promotion flag and promotion-kind bits the UI gave
C39_IsLegalAgreesWithMakeMove ==
    [][AskedThenMade => (MoveWasApplied <=> last.result # 0)]_vars

\* the generated moves engine_make_move would try for the UI move have the
\* promotion flag and kind the UI gave
FlagsAsGenerated(b, em) ==
    \A m \in SeqRange(generate_moves_from(b, RC_TO_SQ(em.from_row, em.from_col))) :
        (/\ m.to = RC_TO_SQ(em.to_row, em.to_col)
         /\ HasFlag(m.flags, FLAG_PROMOTION) => PromoMask(m.flags) = PromoMask(em.flags))
            => PromoBits(m.flags) = PromoBits(em.flags)

\* the two calls agree on the moves whose promotion bits are the generated ones
IsLegalAgreesOnGeneratedFlags ==
    [][(AskedThenMade /\ FlagsAsGenerated(board, last.arg))
          => (MoveWasApplied <=> last.result # 0)]_vars

\* a move onto the last rank was asked about without the promotion flag
PromotionAskedWithoutFlag ==
    /\ last.op = "engine_is_legal_move"
    /\ ~HasFlag(last.arg.flags, FLAG_PROMOTION)
    /\ \E m \in LegalMoves(board) :
          /\ m.from = RC_TO_SQ(last.arg.from_row, last.arg.from_col)
          /\ m.to = RC_TO_SQ(last.arg.to_row, last.arg.to_col)
          /\ HasFlag(m.flags, FLAG_PROMOTION)

\* a legal promotion with its flags was asked about and answered non-zero
PromotionAskedWithFlag ==
    /\ last.op = "engine_is_legal_move"
    /\ HasFlag(last.arg.flags, FLAG_PROMOTION)
    /\ last.result = 1

\* ---- C40: the depth limit and the iteration counter ----

\* the depth limit search_go is to work with for the limits it was given
DepthMeant(limits) ==
    IF limits.max_depth # 0 THEN limits.max_depth
    ELSE IF limits.max_time_ms # 0 \/ limits.max_nodes # 0 THEN MAX_PLY - 1
    ELSE 1

\* search_go has set up its limits and stands before the first loop test
SearchGoStarts == search.pc = "idle" /\ search'.pc = "loop"

\* the first test of the loop is made
FirstLoopTest == search.pc = "loop" /\ search.passes = 0 /\ search' # search

\* an iteration ended and the loop goes on to its next test
NextLoopTest == search.pc = "root_ret" /\ search'.pc = "loop"

\* C40: search_go takes max_depth 0 for depth 63 with a time or node limit and
\* for depth 1 without, runs the iteration of depth 1 for every limit, and its
\* counter goes from a depth d to d + 1 (or stays, on a retry) and never
\* leaves 1..127
C40_DepthLimitAndCounter ==
    [][/\ SearchGoStarts =>
            /\ search'.max_depth = DepthMeant(search'.limits)
            /\ search'.d = 1
       /\ FirstLoopTest =>
            /\ search'.pc = "tree"
            /\ search'.frames[1].depth = 1
       /\ NextLoopTest =>
            /\ search'.d \in {search.d, search.d + 1}
            /\ search'.d \in 1..127]_vars

\* the same for the depth limits up to 126
DepthLimitAndCounterBelow127 ==
    [][search'.limits.max_depth < 127 =>
          /\ SearchGoStarts =>
                /\ search'.max_depth = DepthMeant(search'.limits)
                /\ search'.d = 1
          /\ FirstLoopTest =>
                /\ search'.pc = "tree"
                /\ search'.frames[1].depth = 1
          /\ NextLoopTest =>
                /\ search'.d \in {search.d, search.d + 1}
                /\ search'.d \in 1..127]_vars

\* search_go was given a depth limit above 127 and left without an iteration
NoIterationAbove127 ==
    /\ search.pc = "idle"
    /\ last.op = "search_go"
    /\ last.result # << >>
    /\ last.arg.max_depth > 127
    /\ search.passes = 0

\* the counter wrapped after the iteration of depth 127
CounterWrapped == search.pc = "loop" /\ search.d < 0

\* search_go was given no depth limit and a node limit
DepthLimit63 ==
    /\ search.pc = "tree"
    /\ search.limits.max_depth = 0
    /\ search.max_depth = MAX_PLY - 1
    /\ search.d > 2

====
